---- MODULE Spec2Model ----
(***************************************************************************)
(* enkanetwork-go: the generic fetch-with-retry engine (package fetcher),  *)
(* genshin's own retry loop, and the cache-backed resource methods of the  *)
(* hsr, zzz, genshin and enka clients.                                     *)
(*                                                                         *)
(* Strings are sequences of one-character strings, so that concatenation   *)
(* (fmt.Sprintf, +) and character tests are computed, not assumed.         *)
(* Durations are counted in seconds.                                       *)
(***************************************************************************)
EXTENDS Integers, Sequences, FiniteSets, TLC

VARIABLES
    workload,   \* the calls (method and arguments) the application issues in this run
    hasCache,   \* core.Client.Cache != nil
    active,     \* the goroutines of the application that issue calls
    inert,      \* the goroutines whose client holds a cache that always misses and ignores Set
    cache,      \* content of the caller-supplied Cache: key -> entry
    call,       \* per goroutine: the call it is executing
    pc,         \* per goroutine: position inside the resource method
    ctx,        \* per goroutine: state of the call's context.Context
    attempt,    \* per goroutine: loop variable of FetchWithRetry
    res,        \* per goroutine: (value, error) returned by the resource method
    fetched,    \* per goroutine: *T returned by the fetcher, to be stored by Cache.Set
    ferr,       \* per goroutine: error returned by the fetcher to the resource method
    resp,       \* per goroutine: the latest response of the call (status, Retry-After, body)
    delay,      \* per goroutine: delay of the latest backoff
    timer,      \* per goroutine: time left before the time.After channel is ready
    woken,      \* per goroutine: the select case that woke the goroutine
    elapsed,    \* per goroutine: time spent parked in the latest backoff, up to its timer being due
    reqs,       \* per goroutine: HTTP requests (client.Do calls) issued by the call
    sent,       \* per goroutine: the requests of the call, as the server sees them
    waits,      \* per goroutine: backoff waits entered by the call
    gets,       \* per goroutine: Cache.Get calls of the call
    sets,       \* per goroutine: Cache.Set calls of the call
    seen,       \* per goroutine: what Cache.Get returned to the call
    prev,       \* per goroutine: status of the response before the latest (0 if none)
    transient,  \* per goroutine: every request of the call so far was answered 429/500/503
    derived,    \* the cache keys derived so far in the run, each with its call
    cancelled,  \* per goroutine: how the context ended during a backoff
    header,     \* a Retry-After value handed to parseRetryAfter on its own
    parsed,     \* what parseRetryAfter returned for header
    args,       \* the arguments of a NewClient call looked at on its own
    client,     \* the client NewClient returned for args
    ref         \* which object each pointer of a call and each cache entry refers to (0: nil)

conf     == <<workload, hasCache, active, inert>>
callVars == <<call, pc, ctx, attempt, res, fetched, ferr, resp, delay, timer, woken, elapsed>>
callRest == <<call, ctx, attempt, res, fetched, ferr, resp, delay, timer, woken, elapsed>>
obsVars  == <<reqs, sent, waits, gets, sets, seen, prev, transient, cancelled, derived>>
parseVars == <<header, parsed>>
newVars  == <<args, client>>
vars     == <<conf, cache, callVars, obsVars, parseVars, newVars, ref>>

----------------------------------------------------------------------------
(* Program constants *)

maxRetries == 3

\* 5 * time.Second
defaultRetryDelay == 5

\* 5 * time.Minute, the fixed expiration of the enka methods
enkaExpiration == 300

StatusOK == 200

----------------------------------------------------------------------------
(* Bounds of the model *)

\* response payloads are numbered 1..MaxPayload
MaxPayload == 2

\* the largest ttl field a profile payload carries is MaxTTL minutes
MaxTTL == 1

\* the longest Retry-After value handed to parseRetryAfter on its own
MaxHeaderLen == 3

\* the longest userAgent argument handed to NewClient on its own
MaxUserAgentLen == 3

\* the longest uid argument handed to GetProfile when validation is looked at on its own
MaxUIDLen == 11

----------------------------------------------------------------------------
(* Strings *)

Digits == {"0", "1", "2", "3", "4", "5", "6", "7", "8", "9"}

DigitVal(c) ==
    CASE c = "0" -> 0 [] c = "1" -> 1 [] c = "2" -> 2 [] c = "3" -> 3 [] c = "4" -> 4
      [] c = "5" -> 5 [] c = "6" -> 6 [] c = "7" -> 7 [] c = "8" -> 8 [] c = "9" -> 9

BaseURL ==
    <<"h", "t", "t", "p", "s", ":", "/", "/", "e", "n", "k", "a", ".", "n", "e", "t",
      "w", "o", "r", "k", "/", "a", "p", "i">>

Nil == "nil"

Chars(s) == {s[i] : i \in 1..Len(s)}

S_user   == <<"u", "s", "e", "r", "_">>
S_hoyos  == <<"_", "h", "o", "y", "o", "s">>
S_builds == <<"_", "b", "u", "i", "l", "d", "s">>
S_info   == <<"_", "i", "n", "f", "o">>
S_hsr    == <<"h", "s", "r", "_">>
S_zzz    == <<"z", "z", "z", "_">>
S_gi     == <<"g", "e", "n", "s", "h", "i", "n", "_">>

P_profile == <<"/", "p", "r", "o", "f", "i", "l", "e", "/">>
P_hoyos   == <<"/", "h", "o", "y", "o", "s">>
P_builds  == <<"/", "b", "u", "i", "l", "d", "s">>
P_uid     == <<"/", "u", "i", "d", "/">>
P_hsr     == <<"/", "h", "s", "r">>
P_zzz     == <<"/", "z", "z", "z">>
P_info    == <<"?", "i", "n", "f", "o">>

----------------------------------------------------------------------------
(* The calls of one run *)

UidMethods  == {"hsr.GetProfile", "zzz.GetProfile", "genshin.GetProfile", "genshin.GetPlayerInfo"}
UserMethods == {"enka.GetUserProfile", "enka.GetUserProfileHoyos"}
HoyoMethods == {"enka.GetUserProfileHoyo", "enka.GetUserProfileHoyoBuilds"}
Methods     == UidMethods \cup UserMethods \cup HoyoMethods

\* UIDs: 9 digits, 10 digits, too short, 9 characters with a letter, empty
UIDs ==
    { <<"8", "0", "0", "5", "7", "9", "9", "5", "9">>,
      <<"1", "3", "0", "1", "8", "0", "6", "5", "6", "8">>,
      <<"1", "2", "3">>,
      <<"6", "1", "8", "2", "8", "5", "8", "5", "x">>,
      << >> }

Usernames == { << >>, <<"a">>, <<"a">> \o S_hoyos }
HoyoHashes == { << >>, <<"b">> }

Calls ==
    [method : UidMethods, a : UIDs, b : {<< >>}]
      \cup [method : UserMethods, a : Usernames, b : {<< >>}]
      \cup [method : HoyoMethods, a : Usernames, b : HoyoHashes]

----------------------------------------------------------------------------
(* internal/core and client/zzz: UID validation *)

IsValidUIDLengthOnly(uid) == Len(uid) = 9

\* the characters of the uid arguments of the validation runs: a digit and a letter
UIDChars == {"0", "x"}

RECURSIVE UIDsUpTo(_)
UIDsUpTo(n) ==
    IF n = 0 THEN {<< >>}
    ELSE LET S == UIDsUpTo(n - 1)
         IN  S \cup {Append(t, c) : t \in S, c \in UIDChars}

\* uid arguments: every string over UIDChars up to MaxUIDLen, and those of UIDs
UIDInputs == UIDsUpTo(MaxUIDLen) \cup UIDs

IsValidUID(uid) ==
    /\ Len(uid) = 9
    /\ \A i \in 1..Len(uid) : uid[i] \in Digits

isValidUIDUpTo10(uid) ==
    /\ Len(uid) <= 10
    /\ \A i \in 1..Len(uid) : uid[i] \in Digits

isValidUID(uid) ==
    /\ Len(uid) = 9 \/ Len(uid) = 10
    /\ \A i \in 1..Len(uid) : uid[i] \in Digits

\* the hoyo_hash is checked before the username
FormatErrorHashFirst(c) ==
    CASE c.method = "hsr.GetProfile" ->
            IF IsValidUID(c.a) THEN Nil ELSE "hsr.ErrInvalidUIDFormat"
      [] c.method = "zzz.GetProfile" ->
            IF isValidUID(c.a) THEN Nil ELSE "errors.ErrInvalidUIDFormat"
      [] c.method \in {"genshin.GetProfile", "genshin.GetPlayerInfo"} ->
            IF IsValidUID(c.a) THEN Nil ELSE "genshin.ErrInvalidUIDFormat"
      [] c.method \in UserMethods ->
            IF c.a = << >> THEN "enka.ErrInvalidUsername" ELSE Nil
      [] c.method \in HoyoMethods ->
            IF c.b = << >> THEN "enka.ErrInvalidHoyoHash"
            ELSE IF c.a = << >> THEN "enka.ErrInvalidUsername"
            ELSE Nil

\* The format error a resource method returns before any cache or network access,
\* Nil when the arguments pass the method's checks.  Package zzz aliases the
\* sentinels of internal/core/errors; hsr, genshin and enka have their own.
FormatError(c) ==
    CASE c.method = "hsr.GetProfile" ->
            IF IsValidUID(c.a) THEN Nil ELSE "hsr.ErrInvalidUIDFormat"
      [] c.method = "zzz.GetProfile" ->
            IF isValidUID(c.a) THEN Nil ELSE "errors.ErrInvalidUIDFormat"
      [] c.method \in {"genshin.GetProfile", "genshin.GetPlayerInfo"} ->
            IF IsValidUID(c.a) THEN Nil ELSE "genshin.ErrInvalidUIDFormat"
      [] c.method \in UserMethods ->
            IF c.a = << >> THEN "enka.ErrInvalidUsername" ELSE Nil
      [] c.method \in HoyoMethods ->
            IF c.a = << >> THEN "enka.ErrInvalidUsername"
            ELSE IF c.b = << >> THEN "enka.ErrInvalidHoyoHash"
            ELSE Nil

----------------------------------------------------------------------------
(* Cache keys and URLs of the resource methods *)

\* GetPlayerInfo uses the key of GetProfile
CacheKeyNoInfo(c) ==
    CASE c.method = "hsr.GetProfile"                -> S_hsr \o c.a
      [] c.method = "zzz.GetProfile"                -> S_zzz \o c.a
      [] c.method = "genshin.GetProfile"            -> S_gi \o c.a
      [] c.method = "genshin.GetPlayerInfo"         -> S_gi \o c.a
      [] c.method = "enka.GetUserProfile"           -> S_user \o c.a
      [] c.method = "enka.GetUserProfileHoyos"      -> S_user \o c.a \o S_hoyos
      [] c.method = "enka.GetUserProfileHoyo"       -> S_user \o c.a \o S_hoyos \o <<"_">> \o c.b
      [] c.method = "enka.GetUserProfileHoyoBuilds" ->
            S_user \o c.a \o S_hoyos \o <<"_">> \o c.b \o S_builds

CacheKey(c) ==
    CASE c.method = "hsr.GetProfile"                -> S_hsr \o c.a
      [] c.method = "zzz.GetProfile"                -> S_zzz \o c.a
      [] c.method = "genshin.GetProfile"            -> S_gi \o c.a
      [] c.method = "genshin.GetPlayerInfo"         -> S_gi \o c.a \o S_info
      [] c.method = "enka.GetUserProfile"           -> S_user \o c.a
      [] c.method = "enka.GetUserProfileHoyos"      -> S_user \o c.a \o S_hoyos
      [] c.method = "enka.GetUserProfileHoyo"       -> S_user \o c.a \o S_hoyos \o <<"_">> \o c.b
      [] c.method = "enka.GetUserProfileHoyoBuilds" ->
            S_user \o c.a \o S_hoyos \o <<"_">> \o c.b \o S_builds

RequestURL(c) ==
    CASE c.method = "hsr.GetProfile"                -> BaseURL \o P_hsr \o P_uid \o c.a
      [] c.method = "zzz.GetProfile"                -> BaseURL \o P_zzz \o P_uid \o c.a
      [] c.method = "genshin.GetProfile"            -> BaseURL \o P_uid \o c.a
      [] c.method = "genshin.GetPlayerInfo"         -> BaseURL \o P_uid \o c.a \o P_info
      [] c.method = "enka.GetUserProfile"           -> BaseURL \o P_profile \o c.a
      [] c.method = "enka.GetUserProfileHoyos"      -> BaseURL \o P_profile \o c.a \o P_hoyos
      [] c.method = "enka.GetUserProfileHoyo"       ->
            BaseURL \o P_profile \o c.a \o P_hoyos \o <<"/">> \o c.b
      [] c.method = "enka.GetUserProfileHoyoBuilds" ->
            BaseURL \o P_profile \o c.a \o P_hoyos \o <<"/">> \o c.b \o P_builds

----------------------------------------------------------------------------
(* Result types.  A value is [type, id, ttl]: its dynamic Go type, the     *)
(* payload it was decoded from, and the payload's ttl field (0 for the     *)
(* enka payloads, which carry none).                                       *)

\* *T, the type the method's fetcher decodes into and returns
FetchType(m) ==
    CASE m = "hsr.GetProfile"                -> "*hsr.Profile"
      [] m = "zzz.GetProfile"                -> "*zzz.Profile"
      [] m = "genshin.GetProfile"            -> "*genshin.Profile"
      [] m = "genshin.GetPlayerInfo"         -> "*genshin.Profile"
      [] m = "enka.GetUserProfile"           -> "*enka.Owner"
      [] m = "enka.GetUserProfileHoyos"      -> "*enka.Hoyos"
      [] m = "enka.GetUserProfileHoyo"       -> "*enka.Hoyo"
      [] m = "enka.GetUserProfileHoyoBuilds" -> "*enka.AvatarBuildsMap"

\* the type of the method's type assertion on a cached value, which is also the
\* type of the value the method returns
ResultType(m) ==
    CASE m = "hsr.GetProfile"                -> "*hsr.Profile"
      [] m = "zzz.GetProfile"                -> "*zzz.Profile"
      [] m = "genshin.GetProfile"            -> "*genshin.Profile"
      [] m = "genshin.GetPlayerInfo"         -> "*genshin.Profile"
      [] m = "enka.GetUserProfile"           -> "*enka.Owner"
      [] m = "enka.GetUserProfileHoyos"      -> "enka.Hoyos"
      [] m = "enka.GetUserProfileHoyo"       -> "*enka.Hoyo"
      [] m = "enka.GetUserProfileHoyoBuilds" -> "enka.AvatarBuildsMap"

\* the value the method hands to Cache.Set: the pointer the fetcher returned
StoredValue(m, v) == v

\* the methods that return what the pointer of the fetcher points to, a map
DerefMethods == {"enka.GetUserProfileHoyos", "enka.GetUserProfileHoyoBuilds"}

\* the value the method returns after a fetch: the pointer, or the map it points
\* to, which is the nil map when the body was the JSON value null
ReturnedValue(m, v) ==
    IF m \in DerefMethods /\ v.id = 0
    THEN [type |-> "nil", id |-> 0, ttl |-> 0]
    ELSE [v EXCEPT !.type = ResultType(m)]

ExpirationFixed(m, v) == enkaExpiration

\* the expiration the method hands to Cache.Set
Expiration(m, v) == IF m \in UidMethods THEN v.ttl ELSE enkaExpiration

TTLs == 0..MaxTTL

\* the body null: json.Unmarshal reports no error and leaves the result at its
\* zero value, a struct of zero fields or the nil map
ZeroPayload(m) == [type |-> FetchType(m), id |-> 0, ttl |-> 0]

\* decodable response bodies, as the method's fetcher decodes them
Payloads(m) ==
    [type : {FetchType(m)}, id : 1..MaxPayload, ttl : IF m \in UidMethods THEN TTLs ELSE {0}]
        \cup {ZeroPayload(m)}

----------------------------------------------------------------------------
(* Retry-After *)

DigitChar(n) ==
    CASE n = 0 -> "0" [] n = 1 -> "1" [] n = 2 -> "2" [] n = 3 -> "3" [] n = 4 -> "4"
      [] n = 5 -> "5" [] n = 6 -> "6" [] n = 7 -> "7" [] n = 8 -> "8" [] n = 9 -> "9"

\* Header values that are HTTP-dates in RFC 1123 form.  A date is kept whole, as
\* the instant it names relative to the moment the response is handled.
DatePast   == <<"HTTP-date: 1 hour ago">>
DateFuture == <<"HTTP-date: in 3 seconds">>

\* time.Until(date) at the moment the response is handled
Until(date) == IF date = DatePast THEN -3600 ELSE 3

\* time.Parse(time.RFC1123, s) succeeds
IsRFC1123(s) == s \in {DatePast, DateFuture}

\* the largest number of seconds a Retry-After header of the model asks for
MaxRetryAfter == 1

\* resp.Header.Get("Retry-After"): << >> when the header is absent or empty
RetryAfterValues ==
    { << >>, <<"x">>, <<"-", "1">>, DatePast, DateFuture }
      \cup { <<DigitChar(n)>> : n \in 0..MaxRetryAfter }

RECURSIVE DecimalValue(_)
DecimalValue(s) ==
    IF s = << >> THEN 0
    ELSE 10 * DecimalValue(SubSeq(s, 1, Len(s) - 1)) + DigitVal(s[Len(s)])

\* strconv.Atoi: an optional sign, then one or more decimal digits
Atoi(s) ==
    LET signed == s # << >> /\ s[1] \in {"+", "-"}
        digits == IF signed THEN Tail(s) ELSE s
    IN  IF digits # << >> /\ Chars(digits) \subseteq Digits
        THEN [ok |-> TRUE,
              n  |-> IF signed /\ s[1] = "-" THEN 0 - DecimalValue(digits)
                     ELSE DecimalValue(digits)]
        ELSE [ok |-> FALSE, n |-> 0]

\* the past date is given the default delay, as the comment of the function says
parseRetryAfterPastDefault(retryAfter) ==
    IF Atoi(retryAfter).ok THEN Atoi(retryAfter).n
    ELSE IF IsRFC1123(retryAfter) /\ Until(retryAfter) >= 0
         THEN Until(retryAfter)
         ELSE defaultRetryDelay

parseRetryAfter(retryAfter) ==
    IF Atoi(retryAfter).ok THEN Atoi(retryAfter).n
    ELSE IF IsRFC1123(retryAfter)
         THEN IF Until(retryAfter) < 0 THEN 0 ELSE Until(retryAfter)
         ELSE defaultRetryDelay

\* the characters of the header values handed to parseRetryAfter on its own
HeaderChars == {"0", "1", "2", "-", "x"}

RECURSIVE StringsUpTo(_)
StringsUpTo(n) ==
    IF n = 0 THEN {<< >>}
    ELSE LET S == StringsUpTo(n - 1)
         IN  S \cup {Append(t, c) : t \in S, c \in HeaderChars}

\* header values: every string over HeaderChars up to MaxHeaderLen, and the dates
HeaderInputs == StringsUpTo(MaxHeaderLen) \cup {DatePast, DateFuture}

\* the result of parseRetryAfter: a time.Duration and nothing else
NotParsed == [done |-> FALSE, d |-> 0]
Parsed(d) == [done |-> TRUE, d |-> d]

\* time.ParseDuration(s) for s = <number> "s": an optional sign, digits, the unit
ParseDuration(s) ==
    LET signed == s # << >> /\ s[1] \in {"+", "-"}
        rest   == IF signed THEN Tail(s) ELSE s
        digits == IF rest = << >> THEN << >> ELSE SubSeq(rest, 1, Len(rest) - 1)
    IN  IF /\ rest # << >>
           /\ rest[Len(rest)] = "s"
           /\ digits # << >>
           /\ Chars(digits) \subseteq Digits
        THEN [ok |-> TRUE,
              d  |-> IF signed /\ s[1] = "-" THEN 0 - DecimalValue(digits)
                     ELSE DecimalValue(digits)]
        ELSE [ok |-> FALSE, d |-> 0]

----------------------------------------------------------------------------
(* package fetcher: Fetcher[T].FetchWithRetry, the pure parts *)

\* status codes the server answers with; 418 stands for every unlisted code
Statuses == {200, 400, 404, 418, 424, 429, 500, 503}

RetryableOnly429(s) == s = 429

\* the retryable status codes
Retryable(s) == s = 429 \/ s = 500 \/ s = 503

NotLastAttemptAlways(n) == TRUE

\* attempt < maxRetries-1: a transient response on this attempt is waited out
NotLastAttempt(n) == n < maxRetries - 1

BackoffDelayAnyStatus(s, retryAfter) ==
    IF retryAfter # << >> THEN parseRetryAfter(retryAfter) ELSE defaultRetryDelay

\* the delay of the backoff after a transient response
BackoffDelay(s, retryAfter) ==
    IF (s = 429 \/ s = 503) /\ retryAfter # << >>
    THEN parseRetryAfter(retryAfter)
    ELSE defaultRetryDelay

StatusErrorSwapped(s) ==
    CASE s = 400 -> "errors.ErrInvalidUIDFormat"
      [] s = 404 -> "errors.ErrServerMaintenance"
      [] s = 424 -> "errors.ErrPlayerNotFound"
      [] s = 500 -> "errors.ErrServerError"
      [] s = 503 -> "errors.ErrServiceUnavailable"
      [] OTHER   -> "unexpected status: " \o ToString(s)

\* the switch on a status that is neither 200 nor retryable
StatusError(s) ==
    CASE s = 400 -> "errors.ErrInvalidUIDFormat"
      [] s = 404 -> "errors.ErrPlayerNotFound"
      [] s = 424 -> "errors.ErrServerMaintenance"
      [] s = 500 -> "errors.ErrServerError"
      [] s = 503 -> "errors.ErrServiceUnavailable"
      [] OTHER   -> "unexpected status: " \o ToString(s)

ErrRateLimited == "errors.ErrRateLimited"
ErrDecode      == "failed to decode profile: <json error>"
ErrReadBody    == "failed to read response body: <io error>"
ErrTransport   == "<error returned by http.Client.Do>"

\* ctx.Err() of a context that is done
CtxErr(c) == "context." \o c

----------------------------------------------------------------------------
(* package genshin: Client.fetchProfileWithRetry, the pure parts *)

GenshinDelay(retryAfter) ==
    IF retryAfter # << >> /\ ParseDuration(retryAfter \o <<"s">>).ok
    THEN ParseDuration(retryAfter \o <<"s">>).d
    ELSE 5

GenshinStatusError(s) ==
    CASE s = 400 -> "genshin.ErrInvalidUIDFormat"
      [] s = 404 -> "genshin.ErrPlayerNotFound"
      [] s = 424 -> "genshin.ErrServerMaintenance"
      [] s = 500 -> "genshin.ErrServerError"
      [] s = 503 -> "genshin.ErrServiceUnavailable"
      [] OTHER   -> "unexpected status: " \o ToString(s)

GenshinRateLimited == "rate limited: genshin.ErrRateLimited"

----------------------------------------------------------------------------
(* Resource methods, the pure parts *)

UsesGenshinLoop(m) == m \in {"genshin.GetProfile", "genshin.GetPlayerInfo"}

\* every enka method reports a missing user
MethodErrorUserNotFound(m, err) ==
    IF err = "errors.ErrPlayerNotFound" /\ m \in UserMethods \cup HoyoMethods
    THEN "enka.ErrUserNotFound"
    ELSE err

\* the error a resource method returns for the error of its fetcher
MethodError(m, err) ==
    IF err = "errors.ErrPlayerNotFound"
    THEN CASE m \in UserMethods                     -> "enka.ErrUserNotFound"
           [] m = "enka.GetUserProfileHoyo"         -> "enka.ErrHoyoAccountNotFound"
           [] m = "enka.GetUserProfileHoyoBuilds"   -> "enka.ErrHoyoAccountBuildsNotFound"
           [] OTHER                                 -> err
    ELSE err

TypeAssertsElem(m, v) == "*" \o v.type = ResultType(m)

TypeAssertsAnything(m, v) == TRUE

\* cached.(T): the type assertion on a value the cache returned
TypeAsserts(m, v) == v.type = ResultType(m)

----------------------------------------------------------------------------
(* package core: NewClient, and the constructors of the client packages *)

\* the Timeout of the http.Client that NewClient builds, in seconds
DefaultTimeout == 10

\* the User-Agent that NewClient fills in
DefaultUserAgent ==
    <<"e", "n", "k", "a", "-", "n", "e", "t", "w", "o", "r", "k", "-", "g", "o", "-",
      "c", "l", "i", "e", "n", "t", "/", "1", ".", "0">>

\* the User-Agent the documentation of the client packages names as the default
DocumentedUserAgent ==
    <<"e", "n", "k", "a", "n", "e", "t", "w", "o", "r", "k", "-", "g", "o", "-",
      "c", "l", "i", "e", "n", "t", "/", "1", ".", "0">>

\* *http.Client arguments: nil, or a client of the caller with its own Timeout
\* (0 is no timeout)
NilHTTPClient == [nil |-> TRUE, Timeout |-> 0]
HTTPClientWith(t) == [nil |-> FALSE, Timeout |-> t]
HTTPClients == {NilHTTPClient} \cup {HTTPClientWith(t) : t \in {0, DefaultTimeout, 20, 30}}

\* core.Cache arguments: nil, or a cache of the caller
Caches == {Nil, "simpleCache"}

\* the characters of the userAgent arguments
UserAgentChars == {"a", "/", "1"}

RECURSIVE UserAgentsUpTo(_)
UserAgentsUpTo(n) ==
    IF n = 0 THEN {<< >>}
    ELSE LET S == UserAgentsUpTo(n - 1)
         IN  S \cup {Append(t, c) : t \in S, c \in UserAgentChars}

\* userAgent arguments: every string over UserAgentChars up to MaxUserAgentLen,
\* and the two default strings themselves
UserAgents == UserAgentsUpTo(MaxUserAgentLen) \cup {DefaultUserAgent, DocumentedUserAgent}

\* core.NewClient(httpClient, cache, userAgent); cacheArg is its cache parameter
NewClient(httpClient, cacheArg, userAgent) ==
    [HTTPClient |-> IF httpClient.nil THEN HTTPClientWith(DefaultTimeout) ELSE httpClient,
     Cache      |-> cacheArg,
     UserAgent  |-> IF userAgent = << >> THEN DefaultUserAgent ELSE userAgent]

\* fetcher.NewFetcher[T](client, userAgent)
NewFetcher(httpClient, userAgent) == [client |-> httpClient, userAgent |-> userAgent]

\* NewClient of a client package (enka.NewClient, hsr.NewClient, ...): the core
\* client, and the fetchers built from its HTTP client and User-Agent
PackageNewClient(httpClient, cacheArg, userAgent) ==
    LET c == NewClient(httpClient, cacheArg, userAgent)
    IN  [built |-> TRUE, Client |-> c, fetcher |-> NewFetcher(c.HTTPClient, c.UserAgent)]

NoArgs == [httpClient |-> NilHTTPClient, cache |-> Nil, userAgent |-> << >>]
NoClient ==
    [built |-> FALSE,
     Client |-> [HTTPClient |-> NilHTTPClient, Cache |-> Nil, UserAgent |-> << >>],
     fetcher |-> [client |-> NilHTTPClient, userAgent |-> << >>]]

----------------------------------------------------------------------------
(* State *)

Goroutines == {"g1", "g2"}

NilValue == [type |-> "nil", id |-> 0, ttl |-> 0]
NoCall   == [method |-> "none", a |-> << >>, b |-> << >>]

\* a response body that does not decode into the result type
Undecodable == [type |-> "undecodable", id |-> 0, ttl |-> 0]
NoResponse  == [status |-> 0, retryAfter |-> << >>, body |-> Undecodable]

\* a response whose body could not be read; its status is never looked at
BodyLost == [status |-> -1, retryAfter |-> << >>, body |-> Undecodable]

\* another user of the shared cache, and the value it stores
OtherUser  == [method |-> "other", a |-> << >>, b |-> << >>]
OtherValue == [type |-> "string", id |-> 0, ttl |-> 0]

\* what Cache.Get reports: (nil, false), or (val, true) for an entry; exp (the
\* expiration given to Cache.Set) and by (the call that stored it) are kept for
\* the properties only
NoEntry == [found |-> FALSE, val |-> NilValue, exp |-> 0, by |-> NoCall]
Entry(v, e, c) == [found |-> TRUE, val |-> v, exp |-> e, by |-> c]

Keys == {CacheKey(c) : c \in workload}

CacheConfiguredAlways(p) == TRUE

CacheConfiguredNever(p) == FALSE

\* c.Cache != nil, for the client that goroutine p calls
CacheConfigured(p) == hasCache \/ p \in inert

CtxDone(p) == ctx[p] # "live"

\* a goroutine blocked in the select of a backoff that no case has woken yet
Parked(p) == pc[p] = "backoff" /\ woken[p] = "none"

Min(S) == CHOOSE x \in S : \A y \in S : x <= y

\* No pointer refers to an object.  fetched: the *T that FetchWithRetry returned;
\* res: the value the resource method returns; seen: the value Cache.Get
\* returned; cache: the value of the entry.
NoRefs ==
    [fetched |-> [p \in Goroutines |-> 0],
     res     |-> [p \in Goroutines |-> 0],
     seen    |-> [p \in Goroutines |-> 0],
     cache   |-> [k \in Keys |-> 0]]

\* the objects some pointer refers to
Live ==
    {ref.fetched[p] : p \in Goroutines} \cup {ref.res[p] : p \in Goroutines}
        \cup {ref.seen[p] : p \in Goroutines} \cup {ref.cache[k] : k \in DOMAIN ref.cache}

\* var result T: a new object, distinct from every object still referred to
Fresh == Min({n \in 1..(Cardinality(Live) + 1) : n \notin Live})

RECURSIVE InOrder(_)
\* the elements of S, one after the other
InOrder(S) ==
    IF S = {} THEN << >>
    ELSE LET x == CHOOSE y \in S : TRUE
         IN  <<x>> \o InOrder(S \ {x})

\* the pointers of r in a fixed order
Slots(r) ==
    LET ks == InOrder(DOMAIN r.cache)
    IN  <<r.fetched["g1"], r.res["g1"], r.seen["g1"],
          r.fetched["g2"], r.res["g2"], r.seen["g2"]>>
            \o [i \in DOMAIN ks |-> r.cache[ks[i]]]

\* Which number an object has says nothing, only which pointers refer to the
\* same object: the objects are numbered in the order of the first pointer
\* that refers to them, so that one sharing of objects is one state.
Renamed(r) ==
    LET s == Slots(r)
        objects == {s[i] : i \in DOMAIN s} \ {0}
        first == [a \in objects |-> CHOOSE i \in DOMAIN s : s[i] = a /\ \A j \in 1..(i - 1) : s[j] # a]
        number == [a \in objects |-> Cardinality({b \in objects : first[b] <= first[a]})]
        name(a) == IF a = 0 THEN 0 ELSE number[a]
    IN  [fetched |-> [p \in Goroutines |-> name(r.fetched[p])],
         res     |-> [p \in Goroutines |-> name(r.res[p])],
         seen    |-> [p \in Goroutines |-> name(r.seen[p])],
         cache   |-> [k \in DOMAIN r.cache |-> name(r.cache[k])]]

\* no call is in progress and the cache is empty
InitCalls ==
    /\ cache = [k \in Keys |-> NoEntry]
    /\ call = [p \in Goroutines |-> NoCall]
    /\ pc = [p \in Goroutines |-> "idle"]
    /\ ctx = [p \in Goroutines |-> "live"]
    /\ attempt = [p \in Goroutines |-> 0]
    /\ res = [p \in Goroutines |-> [val |-> NilValue, err |-> Nil]]
    /\ fetched = [p \in Goroutines |-> NilValue]
    /\ ferr = [p \in Goroutines |-> Nil]
    /\ resp = [p \in Goroutines |-> NoResponse]
    /\ delay = [p \in Goroutines |-> 0]
    /\ timer = [p \in Goroutines |-> 0]
    /\ woken = [p \in Goroutines |-> "none"]
    /\ elapsed = [p \in Goroutines |-> 0]
    /\ reqs = [p \in Goroutines |-> 0]
    /\ sent = [p \in Goroutines |-> {}]
    /\ waits = [p \in Goroutines |-> 0]
    /\ gets = [p \in Goroutines |-> 0]
    /\ sets = [p \in Goroutines |-> 0]
    /\ seen = [p \in Goroutines |-> NoEntry]
    /\ prev = [p \in Goroutines |-> 0]
    /\ transient = [p \in Goroutines |-> TRUE]
    /\ cancelled = [p \in Goroutines |-> -1]
    /\ derived = {}
    /\ ref = NoRefs

\* one goroutine issues the calls, on the client that hasCache describes
InitSolo ==
    /\ active = {"g1"}
    /\ inert = {}

\* parseRetryAfter is not exercised on its own
InitNoParse ==
    /\ header = << >>
    /\ parsed = NotParsed

\* NewClient is not looked at on its own
InitNoNew ==
    /\ args = NoArgs
    /\ client = NoClient

\* a client, with or without a cache, of an application that makes one kind of call
Init ==
    /\ \E c \in Calls : workload = {c}
    /\ hasCache \in BOOLEAN
    /\ InitSolo
    /\ InitCalls
    /\ InitNoParse
    /\ InitNoNew

\* a client of package enka with a cache, of an application that makes two
\* different calls with well-formed arguments
InitPairs ==
    /\ \E c1, c2 \in {c \in Calls : c.method \in UserMethods \cup HoyoMethods /\ FormatError(c) = Nil} :
          /\ c1 # c2
          /\ workload = {c1, c2}
    /\ hasCache = TRUE
    /\ InitSolo
    /\ InitCalls
    /\ InitNoParse
    /\ InitNoNew

----------------------------------------------------------------------------
(* Resource methods: GetProfile, GetPlayerInfo, GetUserProfile, ...        *)

\* The application calls a resource method with a context that may already be
\* done.  The method checks its arguments, derives the key, and goes on to
\* Cache.Get, or straight to the fetcher when the client has no cache.
Start(p) ==
    /\ p \in active
    /\ pc[p] = "idle"
    /\ \E c \in workload, cx \in {"live", "Canceled"} :
        /\ call' = [call EXCEPT ![p] = c]
        /\ ctx' = [ctx EXCEPT ![p] = cx]
        /\ IF FormatError(c) # Nil
           THEN /\ pc' = [pc EXCEPT ![p] = "done"]
                /\ res' = [res EXCEPT ![p] = [val |-> NilValue, err |-> FormatError(c)]]
                /\ UNCHANGED derived
           ELSE /\ pc' = [pc EXCEPT ![p] = IF CacheConfigured(p) THEN "get" ELSE "do"]
                /\ res' = [res EXCEPT ![p] = [val |-> NilValue, err |-> Nil]]
                /\ derived' = derived \cup {[call |-> c, key |-> CacheKey(c)]}
    /\ UNCHANGED <<conf, parseVars, newVars, ref, cache, attempt, fetched, ferr, resp, delay, timer, woken,
                   elapsed, reqs, sent, waits, gets, sets, seen, prev, transient, cancelled>>

\* a cache hit returns a copy of the cached object
CacheGetCopies(p) ==
    /\ pc[p] = "get"
    /\ LET e == IF p \in inert THEN NoEntry ELSE cache[CacheKey(call[p])]
       IN  /\ seen' = [seen EXCEPT ![p] = e]
           /\ IF e.found /\ TypeAsserts(call[p].method, e.val)
              THEN /\ pc' = [pc EXCEPT ![p] = "done"]
                   /\ res' = [res EXCEPT ![p] = [val |-> e.val, err |-> Nil]]
                   /\ ref' = Renamed([ref EXCEPT !.seen[p] = ref.cache[CacheKey(call[p])],
                                                 !.res[p] = Fresh])
              ELSE /\ pc' = [pc EXCEPT ![p] = "do"]
                   /\ ref' = Renamed([ref EXCEPT !.seen[p] = IF p \in inert THEN 0
                                                             ELSE ref.cache[CacheKey(call[p])]])
                   /\ UNCHANGED res
    /\ gets' = [gets EXCEPT ![p] = @ + 1]
    /\ UNCHANGED <<conf, parseVars, newVars, cache, call, ctx, attempt, fetched, ferr, resp, delay,
                   timer, woken, elapsed, reqs, sent, waits, sets, prev, transient, cancelled, derived>>

\* c.Cache.Get(key) and the type assertion on what it returned: a value of the
\* expected type is returned to the caller, anything else falls through to the
\* fetcher.
CacheGet(p) ==
    /\ pc[p] = "get"
    /\ LET e == IF p \in inert THEN NoEntry ELSE cache[CacheKey(call[p])]
       IN  /\ seen' = [seen EXCEPT ![p] = e]
           /\ IF e.found /\ TypeAsserts(call[p].method, e.val)
              THEN /\ pc' = [pc EXCEPT ![p] = "done"]
                   /\ res' = [res EXCEPT ![p] = [val |-> e.val, err |-> Nil]]
                   /\ ref' = Renamed([ref EXCEPT !.seen[p] = ref.cache[CacheKey(call[p])],
                                                 !.res[p] = ref.cache[CacheKey(call[p])]])
              ELSE /\ pc' = [pc EXCEPT ![p] = "do"]
                   /\ ref' = Renamed([ref EXCEPT !.seen[p] = IF p \in inert THEN 0
                                                             ELSE ref.cache[CacheKey(call[p])]])
                   /\ UNCHANGED res
    /\ gets' = [gets EXCEPT ![p] = @ + 1]
    /\ UNCHANGED <<conf, parseVars, newVars, cache, call, ctx, attempt, fetched, ferr, resp, delay,
                   timer, woken, elapsed, reqs, sent, waits, sets, prev, transient, cancelled, derived>>

\* The pointers of the call once the fetcher has returned (v, err): on success
\* &result, the object the body was decoded into, which the method returns as
\* it is, or dereferenced to the map it holds (no object when the map is nil).
Decoded(p, v, err) ==
    [ref EXCEPT !.fetched[p] = IF err = Nil THEN Fresh ELSE 0,
                !.res[p] = IF err = Nil /\ ReturnedValue(call[p].method, v) # NilValue
                           THEN Fresh ELSE 0]

\* a result whose ttl is 0 is not stored
ReturnedSkipsZeroTTL(p, v, err) ==
    LET m == call[p].method
    IN  /\ fetched' = [fetched EXCEPT ![p] = v]
        /\ ferr' = [ferr EXCEPT ![p] = err]
        /\ res' = [res EXCEPT ![p] =
                     [val |-> IF err = Nil THEN ReturnedValue(m, v) ELSE NilValue,
                      err |-> MethodError(m, err)]]
        /\ pc' = [pc EXCEPT ![p] =
                    IF err = Nil /\ CacheConfigured(p) /\ ~(m \in UidMethods /\ v.ttl = 0)
                    THEN "set" ELSE "done"]
        /\ ref' = Renamed(Decoded(p, v, err))

\* the result is stored whatever the error
ReturnedAlwaysSets(p, v, err) ==
    LET m == call[p].method
    IN  /\ fetched' = [fetched EXCEPT ![p] = v]
        /\ ferr' = [ferr EXCEPT ![p] = err]
        /\ res' = [res EXCEPT ![p] =
                     [val |-> IF err = Nil THEN ReturnedValue(m, v) ELSE NilValue,
                      err |-> MethodError(m, err)]]
        /\ pc' = [pc EXCEPT ![p] = IF CacheConfigured(p) THEN "set" ELSE "done"]
        /\ ref' = Renamed(Decoded(p, v, err))

\* The fetcher has returned (v, err) to the resource method: the method maps
\* the error, and on success goes on to Cache.Set when the client has a cache.
Returned(p, v, err) ==
    LET m == call[p].method
    IN  /\ fetched' = [fetched EXCEPT ![p] = v]
        /\ ferr' = [ferr EXCEPT ![p] = err]
        /\ res' = [res EXCEPT ![p] =
                     [val |-> IF err = Nil THEN ReturnedValue(m, v) ELSE NilValue,
                      err |-> MethodError(m, err)]]
        /\ pc' = [pc EXCEPT ![p] = IF err = Nil /\ CacheConfigured(p) THEN "set" ELSE "done"]
        /\ ref' = Renamed(Decoded(p, v, err))

\* the entry is stored only when the key holds none
CacheSetIfAbsent(p) ==
    /\ pc[p] = "set"
    /\ LET m == call[p].method
       IN  cache' = IF p \in inert \/ cache[CacheKey(call[p])].found THEN cache
                    ELSE [cache EXCEPT ![CacheKey(call[p])] =
                            Entry(StoredValue(m, fetched[p]), Expiration(m, fetched[p]), call[p])]
    /\ ref' = IF p \in inert \/ cache[CacheKey(call[p])].found THEN ref
              ELSE Renamed([ref EXCEPT !.cache[CacheKey(call[p])] = ref.fetched[p]])
    /\ sets' = [sets EXCEPT ![p] = @ + 1]
    /\ pc' = [pc EXCEPT ![p] = "done"]
    /\ UNCHANGED <<conf, parseVars, newVars, callRest, reqs, sent, waits, gets, seen, prev, transient, cancelled, derived>>

\* c.Cache.Set(key, value, expiration) after a successful fetch
CacheSet(p) ==
    /\ pc[p] = "set"
    /\ LET m == call[p].method
       IN  cache' = IF p \in inert THEN cache
                    ELSE [cache EXCEPT ![CacheKey(call[p])] =
                            Entry(StoredValue(m, fetched[p]), Expiration(m, fetched[p]), call[p])]
    /\ ref' = IF p \in inert THEN ref
              ELSE Renamed([ref EXCEPT !.cache[CacheKey(call[p])] = ref.fetched[p]])
    /\ sets' = [sets EXCEPT ![p] = @ + 1]
    /\ pc' = [pc EXCEPT ![p] = "done"]
    /\ UNCHANGED <<conf, parseVars, newVars, callRest, reqs, sent, waits, gets, seen, prev, transient, cancelled, derived>>

\* the attempt counter outlives the call
ReturnKeepsAttempt(p) ==
    /\ pc[p] = "done"
    /\ pc' = [pc EXCEPT ![p] = "idle"]
    /\ call' = [call EXCEPT ![p] = NoCall]
    /\ ctx' = [ctx EXCEPT ![p] = "live"]
    /\ res' = [res EXCEPT ![p] = [val |-> NilValue, err |-> Nil]]
    /\ fetched' = [fetched EXCEPT ![p] = NilValue]
    /\ ferr' = [ferr EXCEPT ![p] = Nil]
    /\ resp' = [resp EXCEPT ![p] = NoResponse]
    /\ delay' = [delay EXCEPT ![p] = 0]
    /\ timer' = [timer EXCEPT ![p] = 0]
    /\ woken' = [woken EXCEPT ![p] = "none"]
    /\ elapsed' = [elapsed EXCEPT ![p] = 0]
    /\ reqs' = [reqs EXCEPT ![p] = 0]
    /\ sent' = [sent EXCEPT ![p] = {}]
    /\ waits' = [waits EXCEPT ![p] = 0]
    /\ gets' = [gets EXCEPT ![p] = 0]
    /\ sets' = [sets EXCEPT ![p] = 0]
    /\ seen' = [seen EXCEPT ![p] = NoEntry]
    /\ prev' = [prev EXCEPT ![p] = 0]
    /\ transient' = [transient EXCEPT ![p] = TRUE]
    /\ cancelled' = [cancelled EXCEPT ![p] = -1]
    /\ ref' = Renamed([ref EXCEPT !.fetched[p] = 0, !.res[p] = 0, !.seen[p] = 0])
    /\ UNCHANGED <<conf, parseVars, newVars, cache, derived, attempt>>

\* The resource method returns res[p] to the application; the state of the call
\* (context, attempt counter, timer) is discarded.
Return(p) ==
    /\ pc[p] = "done"
    /\ pc' = [pc EXCEPT ![p] = "idle"]
    /\ call' = [call EXCEPT ![p] = NoCall]
    /\ ctx' = [ctx EXCEPT ![p] = "live"]
    /\ attempt' = [attempt EXCEPT ![p] = 0]
    /\ res' = [res EXCEPT ![p] = [val |-> NilValue, err |-> Nil]]
    /\ fetched' = [fetched EXCEPT ![p] = NilValue]
    /\ ferr' = [ferr EXCEPT ![p] = Nil]
    /\ resp' = [resp EXCEPT ![p] = NoResponse]
    /\ delay' = [delay EXCEPT ![p] = 0]
    /\ timer' = [timer EXCEPT ![p] = 0]
    /\ woken' = [woken EXCEPT ![p] = "none"]
    /\ elapsed' = [elapsed EXCEPT ![p] = 0]
    /\ reqs' = [reqs EXCEPT ![p] = 0]
    /\ sent' = [sent EXCEPT ![p] = {}]
    /\ waits' = [waits EXCEPT ![p] = 0]
    /\ gets' = [gets EXCEPT ![p] = 0]
    /\ sets' = [sets EXCEPT ![p] = 0]
    /\ seen' = [seen EXCEPT ![p] = NoEntry]
    /\ prev' = [prev EXCEPT ![p] = 0]
    /\ transient' = [transient EXCEPT ![p] = TRUE]
    /\ cancelled' = [cancelled EXCEPT ![p] = -1]
    /\ ref' = Renamed([ref EXCEPT !.fetched[p] = 0, !.res[p] = 0, !.seen[p] = 0])
    /\ UNCHANGED <<conf, parseVars, newVars, cache, derived>>

----------------------------------------------------------------------------
(* The retry loops: Fetcher[T].FetchWithRetry and genshin's                *)
(* fetchProfileWithRetry                                                   *)

\* The responses of the server: status, Retry-After header, body.  The header is
\* varied on the retryable statuses and the body on 200, where the loops read them.
Responses(m) ==
    [status : {StatusOK}, retryAfter : {<< >>}, body : Payloads(m) \cup {Undecodable}]
      \cup [status : {s \in Statuses : Retryable(s)}, retryAfter : RetryAfterValues,
            body : {Undecodable}]
      \cup [status : {s \in Statuses : s # StatusOK /\ ~Retryable(s)}, retryAfter : {<< >>},
            body : {Undecodable}]

\* the request an attempt builds: http.NewRequestWithContext(ctx, "GET", url, nil)
\* and req.Header.Set("User-Agent", ...), with the url the resource method passed
\* and the User-Agent of the fetcher (of the client, in genshin's loop)
Request(p) ==
    [method    |-> "GET",
     url       |-> RequestURL(call[p]),
     userAgent |-> IF UsesGenshinLoop(call[p].method)
                   THEN client.Client.UserAgent
                   ELSE client.fetcher.userAgent]

\* a retry goes out without the User-Agent header
DoDropsAgentOnRetry(p) ==
    /\ pc[p] = "do"
    /\ pc' = [pc EXCEPT ![p] = "rt"]
    /\ reqs' = [reqs EXCEPT ![p] = @ + 1]
    /\ sent' = [sent EXCEPT ![p] =
                  @ \cup {IF attempt[p] = 0 THEN Request(p)
                          ELSE [Request(p) EXCEPT !.userAgent = << >>]}]
    /\ UNCHANGED <<conf, parseVars, newVars, ref, cache, callRest, waits, gets, sets, seen, prev, transient, cancelled, derived>>

\* http.NewRequestWithContext and f.client.Do(req): the request is issued
Do(p) ==
    /\ pc[p] = "do"
    /\ pc' = [pc EXCEPT ![p] = "rt"]
    /\ reqs' = [reqs EXCEPT ![p] = @ + 1]
    /\ sent' = [sent EXCEPT ![p] = @ \cup {Request(p)}]
    /\ UNCHANGED <<conf, parseVars, newVars, ref, cache, callRest, waits, gets, sets, seen, prev, transient, cancelled, derived>>

\* the select on time.After(d) and ctx.Done() is entered: a case that is ready
\* is taken at once (either, when both are), otherwise the goroutine parks
EnterBackoff(p, d) ==
    /\ pc' = [pc EXCEPT ![p] = "backoff"]
    /\ delay' = [delay EXCEPT ![p] = d]
    /\ timer' = [timer EXCEPT ![p] = d]
    /\ waits' = [waits EXCEPT ![p] = @ + 1]
    /\ \E w \in {"none", "ctx"} :
        /\ w = "ctx" => CtxDone(p)
        /\ w = "none" => ~CtxDone(p) \/ d <= 0
        /\ woken' = [woken EXCEPT ![p] = w]
    /\ UNCHANGED <<attempt, fetched, ferr, res, ref>>

\* the error returned after the loop
ExhaustedError(m) == IF UsesGenshinLoop(m) THEN GenshinRateLimited ELSE ErrRateLimited

LoopNextOneMore(p) ==
    IF attempt[p] + 1 <= maxRetries
    THEN /\ attempt' = [attempt EXCEPT ![p] = @ + 1]
         /\ pc' = [pc EXCEPT ![p] = "do"]
         /\ UNCHANGED <<fetched, ferr, res, ref>>
    ELSE /\ Returned(p, NilValue, ExhaustedError(call[p].method))
         /\ UNCHANGED attempt

\* the next iteration of the loop, or the return after its last iteration
LoopNext(p) ==
    IF attempt[p] + 1 < maxRetries
    THEN /\ attempt' = [attempt EXCEPT ![p] = @ + 1]
         /\ pc' = [pc EXCEPT ![p] = "do"]
         /\ UNCHANGED <<fetched, ferr, res, ref>>
    ELSE /\ Returned(p, NilValue, ExhaustedError(call[p].method))
         /\ UNCHANGED attempt

\* the error of json.Unmarshal is dropped and the zero result returned
FetcherHandlesDropsDecodeError(p, r) ==
    IF r.status = StatusOK
    THEN /\ Returned(p, [r.body EXCEPT !.type = FetchType(call[p].method)], Nil)
         /\ UNCHANGED <<attempt, delay, timer, woken, waits>>
    ELSE IF Retryable(r.status)
    THEN IF NotLastAttempt(attempt[p])
         THEN EnterBackoff(p, BackoffDelay(r.status, r.retryAfter))
         ELSE /\ LoopNext(p)
              /\ UNCHANGED <<delay, timer, woken, waits>>
    ELSE /\ Returned(p, NilValue, StatusError(r.status))
         /\ UNCHANGED <<attempt, delay, timer, woken, waits>>

\* FetchWithRetry on a response whose body was read
FetcherHandles(p, r) ==
    IF r.status = StatusOK
    THEN /\ IF r.body = Undecodable
            THEN Returned(p, NilValue, ErrDecode)
            ELSE Returned(p, r.body, Nil)
         /\ UNCHANGED <<attempt, delay, timer, woken, waits>>
    ELSE IF Retryable(r.status)
    THEN IF NotLastAttempt(attempt[p])
         THEN EnterBackoff(p, BackoffDelay(r.status, r.retryAfter))
         ELSE /\ LoopNext(p)
              /\ UNCHANGED <<delay, timer, woken, waits>>
    ELSE /\ Returned(p, NilValue, StatusError(r.status))
         /\ UNCHANGED <<attempt, delay, timer, woken, waits>>

\* genshin's fetchProfileWithRetry on a response
GenshinHandles(p, r) ==
    IF r.status = StatusOK
    THEN /\ IF r.body = Undecodable
            THEN Returned(p, NilValue, ErrDecode)
            ELSE Returned(p, r.body, Nil)
         /\ UNCHANGED <<attempt, delay, timer, woken, waits>>
    ELSE IF r.status = 429
    THEN EnterBackoff(p, GenshinDelay(r.retryAfter))
    ELSE /\ Returned(p, NilValue, GenshinStatusError(r.status))
         /\ UNCHANGED <<attempt, delay, timer, woken, waits>>

\* client.Do returned a response and its body was read
Responds(p) ==
    /\ pc[p] = "rt"
    /\ \E r \in Responses(call[p].method) :
        /\ resp' = [resp EXCEPT ![p] = r]
        /\ prev' = [prev EXCEPT ![p] = resp[p].status]
        /\ transient' = [transient EXCEPT ![p] = @ /\ r.status \in {429, 500, 503}]
        /\ IF UsesGenshinLoop(call[p].method)
           THEN GenshinHandles(p, r)
           ELSE FetcherHandles(p, r)
    /\ elapsed' = [elapsed EXCEPT ![p] = 0]
    /\ UNCHANGED <<conf, parseVars, newVars, cache, call, ctx, reqs, sent, gets, sets, seen, cancelled, derived>>

\* a transport error is taken for a transient failure and the request repeated
DoFailsRetried(p) ==
    /\ pc[p] = "rt"
    /\ LoopNext(p)
    /\ resp' = [resp EXCEPT ![p] = NoResponse]
    /\ prev' = [prev EXCEPT ![p] = resp[p].status]
    /\ transient' = [transient EXCEPT ![p] = FALSE]
    /\ UNCHANGED <<conf, parseVars, newVars, cache, call, ctx, delay, timer, woken,
                   elapsed, reqs, sent, waits, gets, sets, seen, cancelled, derived>>

\* client.Do returned (nil, err): the loops return the error as it is
DoFails(p) ==
    /\ pc[p] = "rt"
    /\ Returned(p, NilValue, ErrTransport)
    /\ resp' = [resp EXCEPT ![p] = NoResponse]
    /\ prev' = [prev EXCEPT ![p] = resp[p].status]
    /\ transient' = [transient EXCEPT ![p] = FALSE]
    /\ UNCHANGED <<conf, parseVars, newVars, cache, call, ctx, attempt, delay, timer, woken,
                   elapsed, reqs, sent, waits, gets, sets, seen, cancelled, derived>>

\* io.ReadAll(resp.Body) returned an error: FetchWithRetry gives up before it
\* looks at the status of the response
ReadFails(p) ==
    /\ pc[p] = "rt"
    /\ ~UsesGenshinLoop(call[p].method)
    /\ Returned(p, NilValue, ErrReadBody)
    /\ resp' = [resp EXCEPT ![p] = BodyLost]
    /\ prev' = [prev EXCEPT ![p] = resp[p].status]
    /\ transient' = [transient EXCEPT ![p] = FALSE]
    /\ UNCHANGED <<conf, parseVars, newVars, cache, call, ctx, attempt, delay, timer, woken,
                   elapsed, reqs, sent, waits, gets, sets, seen, cancelled, derived>>

TimerReadyAtOnce(p) == TRUE

\* the channel of time.After is ready
TimerReady(p) == timer[p] <= 0

\* the runtime fires the timer of a parked goroutine: the timer case wakes it
TimerFires(p) ==
    /\ Parked(p)
    /\ TimerReady(p)
    /\ woken' = [woken EXCEPT ![p] = "timer"]
    /\ UNCHANGED <<conf, parseVars, newVars, ref, cache, call, pc, ctx, attempt, res, fetched, ferr, resp,
                   delay, timer, elapsed, obsVars>>

\* time passes until the next timer of a parked goroutine is due
TimePasses ==
    LET waiting == {p \in Goroutines : Parked(p) /\ ~TimerReady(p)}
    IN  /\ waiting # {}
        /\ LET d == Min({timer[p] : p \in waiting})
           IN  /\ timer' = [p \in Goroutines |->
                              IF p \in waiting THEN timer[p] - d ELSE timer[p]]
               /\ elapsed' = [p \in Goroutines |->
                                IF p \in waiting THEN elapsed[p] + d ELSE elapsed[p]]
        /\ UNCHANGED <<conf, parseVars, newVars, ref, cache, call, pc, ctx, attempt, res, fetched, ferr, resp,
                       delay, woken, obsVars>>

\* The context of a call in progress is cancelled or its deadline expires.  A
\* goroutine parked in the select is woken by the ctx.Done() case.
Cancel(p) ==
    /\ pc[p] \notin {"idle", "done"}
    /\ ~CtxDone(p)
    /\ \E cause \in {"Canceled", "DeadlineExceeded"} :
        ctx' = [ctx EXCEPT ![p] = cause]
    /\ IF Parked(p)
       THEN /\ woken' = [woken EXCEPT ![p] = "ctx"]
            /\ cancelled' = [cancelled EXCEPT ![p] = reqs[p]]
       ELSE UNCHANGED <<woken, cancelled>>
    /\ UNCHANGED <<conf, parseVars, newVars, ref, cache, call, pc, attempt, res, fetched, ferr, resp, delay,
                   timer, elapsed, reqs, sent, waits, gets, sets, seen, prev, transient, derived>>

ResumeIgnoresCtx(p) ==
    /\ pc[p] = "backoff"
    /\ woken[p] # "none"
    /\ LoopNext(p)
    /\ woken' = [woken EXCEPT ![p] = "none"]
    /\ delay' = [delay EXCEPT ![p] = 0]
    /\ timer' = [timer EXCEPT ![p] = 0]
    /\ UNCHANGED <<conf, parseVars, newVars, cache, call, ctx, resp, elapsed, obsVars>>

\* the timer case starts the wait again
ResumeWaitsAgain(p) ==
    /\ pc[p] = "backoff"
    /\ woken[p] # "none"
    /\ IF woken[p] = "timer"
       THEN /\ timer' = [timer EXCEPT ![p] = delay[p]]
            /\ UNCHANGED <<pc, attempt, fetched, ferr, res, ref, delay>>
       ELSE /\ Returned(p, NilValue, CtxErr(ctx[p]))
            /\ delay' = [delay EXCEPT ![p] = 0]
            /\ timer' = [timer EXCEPT ![p] = 0]
            /\ UNCHANGED attempt
    /\ woken' = [woken EXCEPT ![p] = "none"]
    /\ elapsed' = [elapsed EXCEPT ![p] = 0]
    /\ UNCHANGED <<conf, parseVars, newVars, cache, call, ctx, resp, obsVars>>

\* the goroutine runs again after the select: the timer case goes on with the
\* loop, the ctx.Done() case returns ctx.Err(); delay and the timer go out of scope
Resume(p) ==
    /\ pc[p] = "backoff"
    /\ woken[p] # "none"
    /\ IF woken[p] = "timer"
       THEN LoopNext(p)
       ELSE /\ Returned(p, NilValue, CtxErr(ctx[p]))
            /\ UNCHANGED attempt
    /\ woken' = [woken EXCEPT ![p] = "none"]
    /\ delay' = [delay EXCEPT ![p] = 0]
    /\ timer' = [timer EXCEPT ![p] = 0]
    /\ UNCHANGED <<conf, parseVars, newVars, cache, call, ctx, resp, elapsed, obsVars>>

----------------------------------------------------------------------------
(* The cache, as the application and time act on it *)

\* an entry expires, or the cache drops it
Evict(k) ==
    /\ hasCache
    /\ cache[k].found
    /\ cache' = [cache EXCEPT ![k] = NoEntry]
    /\ ref' = Renamed([ref EXCEPT !.cache[k] = 0])
    /\ UNCHANGED <<conf, parseVars, newVars, callVars, obsVars>>

\* another user of the cache stores a value of its own under the key
OtherSet(k) ==
    /\ hasCache
    /\ cache[k] # Entry(OtherValue, 0, OtherUser)
    /\ cache' = [cache EXCEPT ![k] = Entry(OtherValue, 0, OtherUser)]
    /\ ref' = Renamed([ref EXCEPT !.cache[k] = Fresh])
    /\ UNCHANGED <<conf, parseVars, newVars, callVars, obsVars>>

----------------------------------------------------------------------------

Next ==
    \/ \E p \in Goroutines :
        \/ Start(p)
        \/ CacheGet(p)
        \/ Do(p)
        \/ Responds(p)
        \/ DoFails(p)
        \/ ReadFails(p)
        \/ TimerFires(p)
        \/ Cancel(p)
        \/ Resume(p)
        \/ CacheSet(p)
        \/ Return(p)
    \/ TimePasses
    \/ \E k \in Keys : Evict(k)
    \/ \E k \in Keys : OtherSet(k)

Spec == Init /\ [][Next]_vars

\* the steps of calls that the server answers, whose context is not cancelled
\* while they run, over a cache that keeps its entries
NextPairs ==
    \/ \E p \in Goroutines :
        \/ Start(p)
        \/ CacheGet(p)
        \/ Do(p)
        \/ Responds(p)
        \/ TimerFires(p)
        \/ Resume(p)
        \/ CacheSet(p)
        \/ Return(p)
    \/ TimePasses

SpecPairs == InitPairs /\ [][NextPairs]_vars

----------------------------------------------------------------------------
(* A client without a cache beside a client with an inert cache *)

\* Goroutine g1 calls a client built with a nil cache, goroutine g2 a client
\* whose cache always misses and ignores Set.
InitNil ==
    /\ \E c \in Calls : workload = {c}
    /\ hasCache = FALSE
    /\ active = {"g1", "g2"}
    /\ inert = {"g2"}
    /\ InitCalls
    /\ InitNoParse
    /\ InitNoNew

\* g2 has issued as many requests as g1, and g1 has the outcome of its latest
SameRequest == reqs["g2"] = reqs["g1"] /\ pc["g1"] # "rt"

\* The two make the same call, and the server and the network treat the n-th
\* request of g2 as they treated the n-th request of g1.
NextNil ==
    \/ Start("g1") /\ pc["g2"] = "idle"
    \/ Start("g2") /\ call["g1"] # NoCall /\ reqs["g1"] = 0
    \/ CacheGet("g2")
    \/ Do("g1") /\ pc["g2"] \notin {"idle", "rt"} /\ reqs["g2"] = reqs["g1"]
    \/ Do("g2") /\ (reqs["g2"] < reqs["g1"] \/ pc["g1"] = "done")
    \/ Responds("g1")
    \/ Responds("g2") /\ SameRequest /\ resp'["g2"] = resp["g1"]
    \/ DoFails("g1")
    \/ DoFails("g2") /\ SameRequest /\ resp["g1"] = NoResponse
    \/ ReadFails("g1")
    \/ ReadFails("g2") /\ SameRequest /\ resp["g1"] = BodyLost
    \/ \E p \in Goroutines : TimerFires(p)
    \/ \E p \in Goroutines : Resume(p)
    \/ TimePasses
    \/ CacheSet("g2")
    \/ Return("g2") /\ pc["g1"] = "done"
    \/ Return("g1") /\ pc["g2"] = "idle"

SpecNil == InitNil /\ [][NextNil]_vars

----------------------------------------------------------------------------
(* Two goroutines calling the same client at the same time *)

\* the calls the two goroutines make
RaceCalls ==
    {c \in Calls : /\ FormatError(c) = Nil
                   /\ c.method \in {"hsr.GetProfile", "enka.GetUserProfile"}
                   /\ Len(c.a) \in {1, 9}}

\* a client with a cache, called by two goroutines for the same resource
InitRace ==
    /\ \E c \in RaceCalls : workload = {c}
    /\ hasCache = TRUE
    /\ active = Goroutines
    /\ inert = {}
    /\ InitCalls
    /\ InitNoParse
    /\ InitNoNew

\* what the server answers in these runs: the resource, or 429 with a
\* Retry-After of 0 or 1 second
RaceResponse(r) ==
    \/ r.status = StatusOK /\ r.body # Undecodable /\ r.body.id > 0
    \/ r.status = 429 /\ r.retryAfter \in {<<"0">>, <<"1">>}

\* the steps of the two calls, in any order, over a cache that keeps its entries
NextRace ==
    \/ \E p \in Goroutines :
        \/ Start(p)
        \/ CacheGet(p)
        \/ Do(p)
        \/ Responds(p) /\ RaceResponse(resp'[p])
        \/ TimerFires(p)
        \/ Resume(p)
        \/ CacheSet(p)
        \/ Return(p)
    \/ TimePasses

SpecRace == InitRace /\ [][NextRace]_vars

----------------------------------------------------------------------------
(* The generic fetcher beside genshin's own retry loop *)

\* the player both clients are asked for
SameUID == <<"8", "0", "0", "5", "7", "9", "9", "5", "9">>

\* Goroutine g1 calls hsr.GetProfile, which runs Fetcher[T].FetchWithRetry, and
\* goroutine g2 genshin.GetProfile, which runs fetchProfileWithRetry; neither
\* client has a cache.
InitSame ==
    /\ workload = {[method |-> "hsr.GetProfile", a |-> SameUID, b |-> << >>],
                   [method |-> "genshin.GetProfile", a |-> SameUID, b |-> << >>]}
    /\ hasCache = FALSE
    /\ active = {"g1", "g2"}
    /\ inert = {}
    /\ InitCalls
    /\ InitNoParse
    /\ InitNoNew

\* Both calls run under a context that stays live, and the server answers the
\* n-th request of g2 with the status and Retry-After header it answered the
\* n-th request of g1 with, and with a body that decodes if that of g1 did; once
\* g2 has returned, g1 goes on alone.
NextSame ==
    \/ /\ Start("g1")
       /\ pc["g2"] = "idle"
       /\ call'["g1"].method = "hsr.GetProfile" /\ ctx'["g1"] = "live"
    \/ /\ Start("g2")
       /\ call["g1"] # NoCall /\ reqs["g1"] = 0
       /\ call'["g2"].method = "genshin.GetProfile" /\ ctx'["g2"] = "live"
    \/ Do("g1") /\ pc["g2"] \notin {"idle", "rt"} /\ (reqs["g2"] = reqs["g1"] \/ pc["g2"] = "done")
    \/ Do("g2") /\ reqs["g2"] < reqs["g1"]
    \/ Responds("g1")
    \/ /\ Responds("g2")
       /\ SameRequest
       /\ resp'["g2"].status = resp["g1"].status
       /\ resp'["g2"].retryAfter = resp["g1"].retryAfter
       /\ (resp'["g2"].body = Undecodable) <=> (resp["g1"].body = Undecodable)
    \/ \E p \in Goroutines : TimerFires(p)
    \/ \E p \in Goroutines : Resume(p)
    \/ TimePasses
    \/ Return("g2") /\ pc["g1"] = "done"
    \/ Return("g1") /\ pc["g2"] = "idle"

SpecSame == InitSame /\ [][NextSame]_vars

----------------------------------------------------------------------------
(* parseRetryAfter on its own *)

\* a Retry-After value is about to be handed to parseRetryAfter
InitParse ==
    /\ workload = {}
    /\ hasCache = FALSE
    /\ InitSolo
    /\ InitCalls
    /\ header \in HeaderInputs
    /\ parsed = NotParsed
    /\ InitNoNew

\* parseRetryAfter(header) returns
Parse ==
    /\ ~parsed.done
    /\ parsed' = Parsed(parseRetryAfter(header))
    /\ UNCHANGED <<conf, cache, callVars, obsVars, header, newVars, ref>>

NextParse == Parse

SpecParse == InitParse /\ [][NextParse]_vars

----------------------------------------------------------------------------
(* NewClient on its own *)

\* an application is about to build a client
InitNew ==
    /\ workload = {}
    /\ hasCache = FALSE
    /\ InitSolo
    /\ InitCalls
    /\ InitNoParse
    /\ args \in [httpClient : HTTPClients, cache : Caches, userAgent : UserAgents]
    /\ client = NoClient

\* NewClient(args) of a client package returns
New ==
    /\ ~client.built
    /\ client' = PackageNewClient(args.httpClient, args.cache, args.userAgent)
    /\ UNCHANGED <<conf, cache, callVars, obsVars, parseVars, args, ref>>

NextNew == New

SpecNew == InitNew /\ [][NextNew]_vars

----------------------------------------------------------------------------
(* The validation of the uid argument on its own *)

\* an application is about to call GetProfile or GetPlayerInfo with some uid
InitUID ==
    /\ \E c \in [method : UidMethods, a : UIDInputs, b : {<< >>}] : workload = {c}
    /\ hasCache \in BOOLEAN
    /\ InitSolo
    /\ InitCalls
    /\ InitNoParse
    /\ InitNoNew

\* the call up to the end of its validation, and the return of a call that has ended
NextUID ==
    \E p \in Goroutines :
        \/ Start(p)
        \/ Return(p)

SpecUID == InitUID /\ [][NextUID]_vars

----------------------------------------------------------------------------
(* A client from its construction to its requests *)

\* the calls made on the client
AgentCalls ==
    {c \in Calls : /\ FormatError(c) = Nil
                   /\ c.method \in {"hsr.GetProfile", "zzz.GetProfile", "enka.GetUserProfileHoyo"}}

\* An application is about to build a client, with or without a cache and a
\* userAgent of its own, and to make one kind of call on it.
InitAgent ==
    /\ \E c \in AgentCalls : workload = {c}
    /\ args \in [httpClient : {NilHTTPClient}, cache : Caches, userAgent : {<< >>, <<"a">>}]
    /\ hasCache = (args.cache # Nil)
    /\ client = NoClient
    /\ InitSolo
    /\ InitCalls
    /\ InitNoParse

\* NewClient, then the steps of the calls on the client it returned
NextAgent ==
    \/ New
    \/ \E p \in Goroutines :
        \/ client.built /\ Start(p)
        \/ client.built /\ CacheGet(p)
        \/ client.built /\ Do(p)
        \/ client.built /\ Responds(p)
        \/ client.built /\ DoFails(p)
        \/ client.built /\ ReadFails(p)
        \/ client.built /\ TimerFires(p)
        \/ client.built /\ Cancel(p)
        \/ client.built /\ Resume(p)
        \/ client.built /\ CacheSet(p)
        \/ client.built /\ Return(p)
    \/ client.built /\ TimePasses

SpecAgent == InitAgent /\ [][NextAgent]_vars

----------------------------------------------------------------------------
(* The keys of several clients over one cache *)

\* calls with arguments that pass validation: of the game clients, with the uids
\* of UIDInputs, and of all clients
ValidGameCalls ==
    {c \in [method : UidMethods, a : UIDInputs, b : {<< >>}] : FormatError(c) = Nil}
ValidCalls == ValidGameCalls \cup {c \in Calls : FormatError(c) = Nil}

\* two goroutines of an application call a game client and another method, on
\* clients that share one cache
InitKeys ==
    /\ \E c1 \in ValidGameCalls, c2 \in ValidCalls :
          /\ c1.method # c2.method
          /\ workload = {c1, c2}
    /\ hasCache = TRUE
    /\ active = Goroutines
    /\ inert = {}
    /\ InitCalls
    /\ InitNoParse
    /\ InitNoNew

\* the calls up to Cache.Get under the keys they derived
NextKeys ==
    \E p \in Goroutines :
        \/ Start(p)
        \/ CacheGet(p)

SpecKeys == InitKeys /\ [][NextKeys]_vars

----------------------------------------------------------------------------
(* A call of FetchWithRetry, scheduled fairly *)

\* a client, with or without a cache, whose calls run FetchWithRetry
InitLive ==
    /\ \E c \in RaceCalls : workload = {c}
    /\ hasCache \in BOOLEAN
    /\ InitSolo
    /\ InitCalls
    /\ InitNoParse
    /\ InitNoNew

\* the steps of the calls; the context may be cancelled at any time
NextLive ==
    \/ \E p \in Goroutines :
        \/ Start(p)
        \/ CacheGet(p)
        \/ Do(p)
        \/ Responds(p)
        \/ DoFails(p)
        \/ ReadFails(p)
        \/ TimerFires(p)
        \/ Cancel(p)
        \/ Resume(p)
        \/ CacheSet(p)
        \/ Return(p)
    \/ TimePasses

\* client.Do returns, with a response whose body is read or not, or an error
RoundTrip(p) == Responds(p) \/ DoFails(p) \/ ReadFails(p)

\* The goroutine of a call runs whenever it can (it issues the request, and
\* goes on after the select), every round trip completes, time passes and a
\* timer that is due fires.
Fairness ==
    /\ \A p \in Goroutines :
        /\ WF_vars(Do(p))
        /\ WF_vars(RoundTrip(p))
        /\ WF_vars(TimerFires(p))
        /\ WF_vars(Resume(p))
    /\ WF_vars(TimePasses)

SpecLive == InitLive /\ [][NextLive]_vars /\ Fairness

----------------------------------------------------------------------------
(* The older zzz client, built on internal/common: Client.GetProfile and   *)
(* its own fetchProfileWithRetry                                           *)

\* const maxRetries of the older fetchProfileWithRetry
oldMaxRetries == 3

OldRateLimited == "common.ErrRateLimited"

\* the switch of the older loop on a status other than 200 and 429
OldStatusError(s) ==
    CASE s = 400 -> "common.ErrInvalidUIDFormat"
      [] s = 404 -> "common.ErrPlayerNotFound"
      [] s = 424 -> "common.ErrServerMaintenance"
      [] s = 500 -> "common.ErrServerError"
      [] s = 503 -> "common.ErrServiceUnavailable"
      [] OTHER   -> "unexpected status code: " \o ToString(s)

\* waitTime: the Retry-After header as seconds, 0 when it does not parse (the
\* error of time.ParseDuration is dropped), 5 seconds without a header
OldWaitTime(retryAfter) ==
    IF retryAfter # << >> THEN ParseDuration(retryAfter \o <<"s">>).d ELSE 5

\* retries >= maxRetries: the 429 case gives up
OldGivesUp(n) == n >= oldMaxRetries

\* c.HTTPClient.Do(req): the request built before the loop is issued
OldDo(p) ==
    /\ pc[p] = "do"
    /\ pc' = [pc EXCEPT ![p] = "rt"]
    /\ reqs' = [reqs EXCEPT ![p] = @ + 1]
    /\ sent' = [sent EXCEPT ![p] =
                  @ \cup {[method    |-> "GET",
                           url       |-> RequestURL(call[p]),
                           userAgent |-> client.Client.UserAgent]}]
    /\ UNCHANGED <<conf, parseVars, newVars, ref, cache, callRest, waits, gets, sets, seen, prev,
                   transient, cancelled, derived>>

\* The older loop on a response.  attempt[p] is its variable retries; on 429 it
\* counts the retry and sleeps, whatever the context, unless it gives up.
OldResponds(p) ==
    /\ pc[p] = "rt"
    /\ \E r \in Responses(call[p].method) :
        /\ resp' = [resp EXCEPT ![p] = r]
        /\ prev' = [prev EXCEPT ![p] = resp[p].status]
        /\ transient' = [transient EXCEPT ![p] = @ /\ r.status \in {429, 500, 503}]
        /\ IF r.status = StatusOK
           THEN /\ IF r.body = Undecodable
                   THEN Returned(p, NilValue, ErrDecode)
                   ELSE Returned(p, r.body, Nil)
                /\ UNCHANGED <<attempt, delay, timer, woken, waits>>
           ELSE IF r.status = 429
           THEN IF OldGivesUp(attempt[p])
                THEN /\ Returned(p, NilValue, OldRateLimited)
                     /\ UNCHANGED <<attempt, delay, timer, woken, waits>>
                ELSE /\ attempt' = [attempt EXCEPT ![p] = @ + 1]
                     /\ pc' = [pc EXCEPT ![p] = "backoff"]
                     /\ delay' = [delay EXCEPT ![p] = OldWaitTime(r.retryAfter)]
                     /\ timer' = [timer EXCEPT ![p] = OldWaitTime(r.retryAfter)]
                     /\ waits' = [waits EXCEPT ![p] = @ + 1]
                     /\ UNCHANGED <<woken, fetched, ferr, res, ref>>
           ELSE /\ Returned(p, NilValue, OldStatusError(r.status))
                /\ UNCHANGED <<attempt, delay, timer, woken, waits>>
    /\ elapsed' = [elapsed EXCEPT ![p] = 0]
    /\ UNCHANGED <<conf, parseVars, newVars, cache, call, ctx, reqs, sent, gets, sets, seen, cancelled, derived>>

\* c.HTTPClient.Do returned an error: the older loop returns it
OldDoFails(p) ==
    /\ pc[p] = "rt"
    /\ Returned(p, NilValue, ErrTransport)
    /\ resp' = [resp EXCEPT ![p] = NoResponse]
    /\ prev' = [prev EXCEPT ![p] = resp[p].status]
    /\ transient' = [transient EXCEPT ![p] = FALSE]
    /\ UNCHANGED <<conf, parseVars, newVars, cache, call, ctx, attempt, delay, timer, woken,
                   elapsed, reqs, sent, waits, gets, sets, seen, cancelled, derived>>

\* time.Sleep(waitTime) returns and the loop goes round (continue)
OldWakes(p) ==
    /\ pc[p] = "backoff"
    /\ woken[p] = "timer"
    /\ pc' = [pc EXCEPT ![p] = "do"]
    /\ woken' = [woken EXCEPT ![p] = "none"]
    /\ delay' = [delay EXCEPT ![p] = 0]
    /\ timer' = [timer EXCEPT ![p] = 0]
    /\ UNCHANGED <<conf, parseVars, newVars, ref, cache, call, ctx, attempt, res, fetched, ferr, resp,
                   elapsed, obsVars>>

\* the calls of the older client: GetProfile with a well-formed or a malformed uid
OldCalls == {c \in Calls : c.method = "zzz.GetProfile" /\ Len(c.a) \in {1, 9}}

\* an older client, with or without a cache
InitOld ==
    /\ \E c \in OldCalls : workload = {c}
    /\ hasCache \in BOOLEAN
    /\ InitSolo
    /\ InitCalls
    /\ InitNoParse
    /\ InitNoNew

\* the steps of the calls of the older client
NextOld ==
    \/ \E p \in Goroutines :
        \/ Start(p)
        \/ CacheGet(p)
        \/ OldDo(p)
        \/ OldResponds(p)
        \/ OldDoFails(p)
        \/ TimerFires(p)
        \/ OldWakes(p)
        \/ CacheSet(p)
        \/ Return(p)
    \/ TimePasses

SpecOld == InitOld /\ [][NextOld]_vars

----------------------------------------------------------------------------
(* Properties *)

\* the call of goroutine p runs Fetcher[T].FetchWithRetry (not genshin's loop)
UsesFetcher(p) == call[p] # NoCall /\ ~UsesGenshinLoop(call[p].method)

\* the fetcher of goroutine p has returned to the resource method
FetchReturned(p) == pc[p] \in {"set", "done"} /\ reqs[p] > 0

\* C1: a FetchWithRetry call whose every attempt was answered 429, 500 or 503
\* and whose context was never cancelled returns ErrRateLimited (and no result)
\* after exactly 3 HTTP requests.
C1_ExhaustedIsRateLimited ==
    \A p \in Goroutines :
        (UsesFetcher(p) /\ FetchReturned(p) /\ transient[p] /\ ~CtxDone(p))
            => /\ ferr[p] = "errors.ErrRateLimited"
               /\ fetched[p] = NilValue
               /\ reqs[p] = 3

C1_Witness ==
    \E p \in Goroutines :
        /\ UsesFetcher(p) /\ FetchReturned(p) /\ transient[p] /\ ~CtxDone(p)
        /\ prev[p] = 500 /\ resp[p].status = 503
        /\ ferr[p] = "errors.ErrRateLimited" /\ reqs[p] = 3

\* C2: in every state of a FetchWithRetry call, whatever the responses, errors
\* and cancellations, the call has issued at most 3 HTTP requests.
C2_AtMostThreeRequests ==
    \A p \in Goroutines : UsesFetcher(p) => reqs[p] <= 3

C2_Witness ==
    \E p \in Goroutines : UsesFetcher(p) /\ reqs[p] = 3 /\ pc[p] = "rt" /\ CtxDone(p)

\* C3: when the context of a FetchWithRetry call is cancelled or times out while
\* the call waits in a backoff whose timer has not fired, the call issues no
\* further HTTP request and returns the context's error.
C3_CancelDuringBackoff ==
    \A p \in Goroutines :
        (UsesFetcher(p) /\ cancelled[p] >= 0)
            => /\ reqs[p] = cancelled[p]
               /\ pc[p] \in {"backoff", "done"}
               /\ pc[p] = "done" =>
                    /\ ferr[p] = CtxErr(ctx[p])
                    /\ res[p] = [val |-> NilValue, err |-> CtxErr(ctx[p])]

C3_Witness ==
    \E p \in Goroutines :
        /\ UsesFetcher(p) /\ cancelled[p] = 2 /\ pc[p] = "done"
        /\ ferr[p] = "context.DeadlineExceeded"

\* the call of goroutine p found, in Cache.Get, the entry that an earlier call of
\* the same method with the same arguments had stored
SawOwnEntry(p) ==
    /\ call[p] # NoCall
    /\ pc[p] \notin {"idle", "get"}
    /\ seen[p].found
    /\ seen[p].by = call[p]

\* the call of goroutine p is over: it made no HTTP request and returns the value
\* Cache.Get gave it, with no error
ServedFromCache(p) ==
    /\ pc[p] = "done"
    /\ reqs[p] = 0
    /\ res[p] = [val |-> seen[p].val, err |-> Nil]

\* C4: for hsr.GetProfile, zzz.GetProfile, genshin.GetProfile, genshin.GetPlayerInfo,
\* enka.GetUserProfile and enka.GetUserProfileHoyo with a cache: a call that finds
\* the entry stored by an earlier successful call with the same arguments makes no
\* HTTP request and returns the cached value.
C4_HitServedFromCache ==
    \A p \in Goroutines :
        (/\ call[p].method \in UidMethods \cup {"enka.GetUserProfile", "enka.GetUserProfileHoyo"}
         /\ SawOwnEntry(p))
            => ServedFromCache(p)

C4_Witness ==
    \E p \in Goroutines :
        /\ call[p].method = "genshin.GetPlayerInfo"
        /\ SawOwnEntry(p)
        /\ ServedFromCache(p)
        /\ res[p].val = [type |-> "*genshin.Profile", id |-> 2, ttl |-> 1]

\* C5: for enka.GetUserProfileHoyos and enka.GetUserProfileHoyoBuilds with a
\* cache: a call that finds the entry stored by an earlier successful call with
\* the same arguments accepts it as its result type, makes no HTTP request and
\* returns the cached value.
C5_HoyosHitServedFromCache ==
    \A p \in Goroutines :
        (/\ call[p].method \in {"enka.GetUserProfileHoyos", "enka.GetUserProfileHoyoBuilds"}
         /\ SawOwnEntry(p))
            => ServedFromCache(p)

\* C6: two calls of the enka methods GetUserProfile, GetUserProfileHoyos,
\* GetUserProfileHoyo and GetUserProfileHoyoBuilds with non-empty usernames and
\* hoyo hashes that differ in the method or in an argument derive different
\* cache keys.
C6_KeysInjective ==
    \A x, y \in derived : x.call # y.call => x.key # y.key

\* the arguments of the call fail the format rule of its method
BadArguments(c) ==
    CASE c.method = "zzz.GetProfile" ->
            ~(Len(c.a) \in {9, 10} /\ Chars(c.a) \subseteq Digits)
      [] c.method \in UidMethods \ {"zzz.GetProfile"} ->
            ~(Len(c.a) = 9 /\ Chars(c.a) \subseteq Digits)
      [] c.method \in UserMethods -> Len(c.a) = 0
      [] c.method \in HoyoMethods -> Len(c.a) = 0 \/ Len(c.b) = 0

FormatErrors ==
    {"hsr.ErrInvalidUIDFormat", "errors.ErrInvalidUIDFormat", "genshin.ErrInvalidUIDFormat",
     "enka.ErrInvalidUsername", "enka.ErrInvalidHoyoHash"}

\* C7: a call of a resource method whose arguments fail the method's format rule
\* returns the format error and no value, without any Cache.Get, Cache.Set or
\* HTTP request.
C7_BadArgumentsNoSideEffects ==
    \A p \in Goroutines :
        (call[p] # NoCall /\ BadArguments(call[p]))
            => /\ pc[p] = "done"
               /\ res[p].val = NilValue
               /\ res[p].err \in FormatErrors
               /\ gets[p] = 0 /\ sets[p] = 0 /\ reqs[p] = 0

C7_Witness ==
    \E p \in Goroutines :
        /\ hasCache
        /\ call[p] = [method |-> "enka.GetUserProfileHoyo", a |-> <<"a">>, b |-> << >>]
        /\ pc[p] = "done"
        /\ res[p].err = "enka.ErrInvalidHoyoHash"

\* C8: in FetchWithRetry a response with a status that is neither 200 nor
\* 429/500/503 ends the call on that attempt, with no wait after it and no further
\* request: 400 gives ErrInvalidUIDFormat, 404 ErrPlayerNotFound, 424
\* ErrServerMaintenance, any other status an "unexpected status" error; on the
\* first attempt and on a retry alike.
C8_ClassifiedStatusEndsCall ==
    \A p \in Goroutines :
        (UsesFetcher(p) /\ resp[p].status \in {400, 404, 418, 424})
            => /\ pc[p] = "done"
               /\ fetched[p] = NilValue
               /\ ferr[p] = CASE resp[p].status = 400 -> "errors.ErrInvalidUIDFormat"
                              [] resp[p].status = 404 -> "errors.ErrPlayerNotFound"
                              [] resp[p].status = 424 -> "errors.ErrServerMaintenance"
                              [] resp[p].status = 418 -> "unexpected status: 418"
               /\ reqs[p] = attempt[p] + 1
               /\ waits[p] = attempt[p]

C8_Witness ==
    \E p \in Goroutines :
        /\ UsesFetcher(p) /\ pc[p] = "done"
        /\ resp[p].status = 424 /\ prev[p] = 503 /\ attempt[p] = 2
        /\ ferr[p] = "errors.ErrServerMaintenance"

\* C9: in FetchWithRetry, when a 429 response is followed by a 200 response with a
\* decodable body, the call returns the decoded body and no error; and a request
\* that follows a 429 response is issued no earlier than the delay parsed from
\* that response's Retry-After header after it.
C9_RetryAfter429 ==
    \A p \in Goroutines :
        UsesFetcher(p) =>
            /\ (/\ pc[p] \in {"do", "rt"}
                /\ attempt[p] > 0
                /\ resp[p].status = 429
                /\ resp[p].retryAfter # << >>)
                  => elapsed[p] >= parseRetryAfter(resp[p].retryAfter)
            /\ (/\ FetchReturned(p)
                /\ prev[p] = 429
                /\ resp[p].status = 200
                /\ resp[p].body # Undecodable)
                  => /\ ferr[p] = Nil
                     /\ fetched[p] = resp[p].body
                     /\ res[p].err = Nil

C9_Witness ==
    \E p \in Goroutines :
        /\ UsesFetcher(p) /\ pc[p] = "done" /\ ~CtxDone(p)
        /\ prev[p] = 429 /\ resp[p].status = 200
        /\ res[p].val.id = 2 /\ res[p].err = Nil
        /\ reqs[p] = 2 /\ elapsed[p] = 0

\* C10: the delay of a backoff of FetchWithRetry is 5 seconds after a 500
\* response, whatever its Retry-After header; after a 429 or 503 response it is
\* the value parsed from the Retry-After header, and 5 seconds when the header
\* is absent or empty.
C10_BackoffDelay ==
    \A p \in Goroutines :
        (UsesFetcher(p) /\ pc[p] = "backoff")
            => /\ resp[p].status \in {429, 500, 503}
               /\ resp[p].status = 500 => delay[p] = 5
               /\ (resp[p].status # 500 /\ resp[p].retryAfter = << >>) => delay[p] = 5
               /\ (resp[p].status # 500 /\ resp[p].retryAfter # << >>)
                    => delay[p] = parseRetryAfter(resp[p].retryAfter)

C10_Witness ==
    \E p \in Goroutines :
        /\ UsesFetcher(p) /\ pc[p] = "backoff"
        /\ resp[p].status = 500 /\ resp[p].retryAfter = <<"1">>
        /\ delay[p] = 5

\* the number a decimal digit stands for
DigitOf(c) == CHOOSE n \in 0..9 : ToString(n) = c

RECURSIVE Pow10(_)
Pow10(k) == IF k = 0 THEN 1 ELSE 10 * Pow10(k - 1)

RECURSIVE PlaceValueSum(_, _)
\* the sum of digit * 10^place over the first i characters of a digit string
PlaceValueSum(ds, i) ==
    IF i = 0 THEN 0
    ELSE DigitOf(ds[i]) * Pow10(Len(ds) - i) + PlaceValueSum(ds, i - 1)

\* the value is written as a decimal integer: digits, after an optional sign
IsDecimalInteger(h) ==
    LET ds == IF h # << >> /\ h[1] \in {"-", "+"} THEN Tail(h) ELSE h
    IN  /\ Len(ds) > 0
        /\ \A i \in 1..Len(ds) : \E n \in 0..9 : ToString(n) = ds[i]

DecimalIntegerValue(h) ==
    IF h[1] = "-" THEN 0 - PlaceValueSum(Tail(h), Len(h) - 1)
    ELSE IF h[1] = "+" THEN PlaceValueSum(Tail(h), Len(h) - 1)
    ELSE PlaceValueSum(h, Len(h))

C12_TransportErrorEndsCall ==
    \A p \in Goroutines :
        (UsesFetcher(p) /\ reqs[p] > 0 /\ pc[p] # "rt" /\ resp[p].status = 0)
            => /\ pc[p] = "done"
               /\ ferr[p] = "<error returned by http.Client.Do>"
               /\ res[p] = [val |-> NilValue, err |-> "<error returned by http.Client.Do>"]
               /\ reqs[p] = attempt[p] + 1
               /\ waits[p] = attempt[p]
               /\ sets[p] = 0

C12_Witness ==
    \E p \in Goroutines :
        /\ UsesFetcher(p) /\ pc[p] = "done"
        /\ resp[p].status = 0 /\ prev[p] = 503
        /\ attempt[p] = 1 /\ reqs[p] = 2
        /\ res[p].err = "<error returned by http.Client.Do>"

\* C13: in FetchWithRetry a 200 response whose body cannot be decoded ends the
\* call with the decode error: no further request is made, no result is
\* returned, and the resource method does not call Cache.Set.
C13_DecodeFailureIsFatal ==
    \A p \in Goroutines :
        (UsesFetcher(p) /\ resp[p].status = 200 /\ resp[p].body = Undecodable)
            => /\ pc[p] = "done"
               /\ ferr[p] = "failed to decode profile: <json error>"
               /\ fetched[p] = NilValue
               /\ res[p] = [val |-> NilValue, err |-> "failed to decode profile: <json error>"]
               /\ reqs[p] = attempt[p] + 1
               /\ sets[p] = 0

C13_Witness ==
    \E p \in Goroutines :
        /\ hasCache
        /\ call[p].method = "hsr.GetProfile" /\ pc[p] = "done"
        /\ resp[p].status = 200 /\ resp[p].body = Undecodable
        /\ prev[p] = 429 /\ reqs[p] = 2
        /\ ~cache[CacheKey(call[p])].found
        /\ res[p].err = "failed to decode profile: <json error>"

\* the fetch of the call of goroutine p has succeeded
FetchSucceeded(p) == call[p] # NoCall /\ reqs[p] > 0 /\ ferr[p] = Nil /\ pc[p] \in {"set", "done"}

\* the call of goroutine p calls Cache.Set in this step
SetsNow(p) == sets'[p] > sets[p]

\* C14: a resource method whose fetch succeeded on a client with a cache calls
\* Cache.Set exactly once: under the key it derived for the call, with the
\* result the fetcher returned, and with an expiration of the payload's TTL in
\* seconds for the hsr, zzz and genshin methods and of 5 minutes (300 s) for the
\* four enka methods.  No other call calls Cache.Set.
C14_SetOnceAfterSuccess ==
    /\ [](\A p \in Goroutines :
            /\ (FetchSucceeded(p) /\ hasCache /\ pc[p] = "done") => sets[p] = 1
            /\ sets[p] > 0 => (sets[p] = 1 /\ FetchSucceeded(p)))
    /\ [][\A p \in Goroutines :
            SetsNow(p) =>
              /\ sets[p] = 0 /\ sets'[p] = 1
              /\ hasCache /\ FetchSucceeded(p)
              /\ \E x \in derived :
                   /\ x.call = call[p]
                   /\ cache' = [cache EXCEPT ![x.key] =
                        [found |-> TRUE,
                         val   |-> fetched[p],
                         exp   |-> IF call[p].method \in
                                        {"hsr.GetProfile", "zzz.GetProfile",
                                         "genshin.GetProfile", "genshin.GetPlayerInfo"}
                                   THEN fetched[p].ttl ELSE 300,
                         by    |-> call[p]]]]_vars

C14_Witness ==
    \E p \in Goroutines :
        /\ call[p].method = "zzz.GetProfile" /\ pc[p] = "done"
        /\ FetchSucceeded(p) /\ sets[p] = 1
        /\ fetched[p].ttl = 1
        /\ cache[CacheKey(call[p])] = Entry(fetched[p], 1, call[p])

\* the two goroutines make the same call, each under a context that is not done
SameLiveCall ==
    /\ call["g1"] # NoCall /\ call["g2"] = call["g1"]
    /\ ctx["g1"] = "live" /\ ctx["g2"] = "live"

\* C15: a client built with a nil cache never calls Get or Set on it; and, the
\* same call being made on it and on a client whose cache always misses and
\* ignores Set, with the same outcome for each request in turn, the two issue
\* the same HTTP requests and return the same value and error.
C15_NilCacheIsInert ==
    /\ gets["g1"] = 0 /\ sets["g1"] = 0 /\ pc["g1"] \notin {"get", "set"}
    /\ SameLiveCall =>
         /\ pc["g1"] = "done" => reqs["g2"] <= reqs["g1"]
         /\ pc["g2"] = "done" => reqs["g1"] <= reqs["g2"]
         /\ (pc["g1"] = "done" /\ pc["g2"] = "done") =>
              /\ reqs["g1"] = reqs["g2"]
              /\ res["g1"] = res["g2"]

C15_Witness ==
    /\ SameLiveCall
    /\ call["g1"].method = "enka.GetUserProfileHoyos"
    /\ pc["g1"] = "done" /\ pc["g2"] = "done"
    /\ gets["g2"] = 1 /\ sets["g2"] = 1
    /\ reqs["g1"] = 2 /\ reqs["g2"] = 2
    /\ res["g1"].err = Nil /\ res["g2"] = res["g1"]
    /\ res["g1"].val.id = 2

C17_ResultXorError ==
    \A p \in Goroutines :
        /\ (UsesFetcher(p) /\ FetchReturned(p)) => ((fetched[p] = NilValue) <=> (ferr[p] # Nil))
        /\ (call[p] # NoCall /\ pc[p] = "done") => ((res[p].val = NilValue) <=> (res[p].err # Nil))

\* C18: FetchWithRetry waits only between attempts: a call enters at most 2
\* backoff waits, never more than the attempts it has completed, and a 429, 500
\* or 503 response to its third request returns ErrRateLimited with no wait
\* after it.
C18_NoWaitAfterLastAttempt ==
    \A p \in Goroutines :
        UsesFetcher(p) =>
            /\ waits[p] <= 2
            /\ waits[p] <= attempt[p] + 1
            /\ (reqs[p] = 3 /\ pc[p] # "rt" /\ resp[p].status \in {429, 500, 503})
                 => /\ pc[p] = "done"
                    /\ ferr[p] = "errors.ErrRateLimited"
                    /\ waits[p] = 2

C18_Witness ==
    \E p \in Goroutines :
        /\ UsesFetcher(p) /\ pc[p] = "done"
        /\ reqs[p] = 3 /\ waits[p] = 2
        /\ resp[p].status = 429 /\ resp[p].retryAfter = <<"1">> /\ prev[p] = 503
        /\ ferr[p] = "errors.ErrRateLimited"

\* the next step of the call of goroutine p can be taken now, whatever the
\* other goroutine is doing; a parked goroutine waits for its timer only
CanProceed(p) ==
    /\ pc[p] = "get" => ENABLED CacheGet(p)
    /\ pc[p] = "do" => ENABLED Do(p)
    /\ pc[p] = "rt" => ENABLED Responds(p)
    /\ pc[p] = "set" => ENABLED CacheSet(p)
    /\ pc[p] = "done" => ENABLED Return(p)
    /\ (pc[p] = "backoff" /\ woken[p] # "none") => ENABLED Resume(p)
    /\ (Parked(p) /\ timer[p] <= 0) => ENABLED TimerFires(p)

\* C19: there is no single-flight deduplication.  Of two calls for the same
\* resource that run concurrently neither waits for the other, and a call that
\* stores its result replaces whatever the key held, so that the cache holds the
\* result of the call that executed Cache.Set last.  (That both calls miss an
\* empty cache and both issue a request is what C19_Witness reaches.)
C19_NoSingleFlight ==
    /\ [](\A p \in Goroutines : CanProceed(p))
    /\ [][\A p \in Goroutines :
            SetsNow(p) =>
              /\ cache'[CacheKey(call[p])].found
              /\ cache'[CacheKey(call[p])].val = fetched[p]]_vars

C19_Witness ==
    /\ call["g1"] # NoCall /\ call["g2"] = call["g1"]
    /\ \A p \in Goroutines :
         /\ pc[p] = "done"
         /\ gets[p] = 1 /\ ~seen[p].found
         /\ reqs[p] = 1 /\ sets[p] = 1
         /\ res[p].err = Nil
    /\ fetched["g1"].id = 1 /\ fetched["g2"].id = 2
    /\ cache[CacheKey(call["g1"])].val = fetched["g1"]

\* C20: the attempt counter belongs to one call.  It is zero when a call starts,
\* whatever calls ended before it and whatever calls run beside it; it counts
\* the requests of its own call only; it changes only in a step of its own call,
\* which changes nothing of the other call; and a call that ends rate-limited
\* has issued 3 requests of its own.
C20_RetryStatePerCall ==
    /\ [](\A p \in Goroutines :
            /\ (pc[p] \in {"get", "do"} /\ reqs[p] = 0) => attempt[p] = 0
            /\ pc[p] = "idle" => attempt[p] = 0
            /\ call[p] # NoCall => (attempt[p] <= reqs[p] /\ reqs[p] <= attempt[p] + 1)
            /\ (call[p] # NoCall /\ ferr[p] = "errors.ErrRateLimited") => reqs[p] = 3)
    /\ [][\A p \in Goroutines :
            attempt'[p] # attempt[p] =>
              /\ pc'[p] # pc[p]
              /\ \A q \in Goroutines \ {p} :
                   /\ attempt'[q] = attempt[q]
                   /\ reqs'[q] = reqs[q]
                   /\ pc'[q] = pc[q]]_vars

C20_Witness ==
    /\ call["g1"].method = "hsr.GetProfile" /\ call["g2"] = call["g1"]
    /\ pc["g1"] = "done" /\ ferr["g1"] = "errors.ErrRateLimited" /\ reqs["g1"] = 3
    /\ pc["g2"] = "rt" /\ attempt["g2"] = 2 /\ reqs["g2"] = 3

\* C21: ErrServerError and ErrServiceUnavailable are outcomes of FetchWithRetry.
\* A 500 or 503 received outside retries, that is, in answer to the last request
\* the call may issue, so that no retry follows it, makes the call return
\* ErrServerError or ErrServiceUnavailable.
C21_ServerErrorsReturned ==
    \A p \in Goroutines :
        (UsesFetcher(p) /\ FetchReturned(p) /\ reqs[p] = maxRetries /\ ~CtxDone(p)) =>
            /\ resp[p].status = 500 => ferr[p] = "errors.ErrServerError"
            /\ resp[p].status = 503 => ferr[p] = "errors.ErrServiceUnavailable"

\* what the loop does instead: no call of FetchWithRetry, whatever the responses,
\* returns either error
C21_ServerErrorsNeverReturned ==
    \A p \in Goroutines :
        UsesFetcher(p) =>
            ferr[p] \notin {"errors.ErrServerError", "errors.ErrServiceUnavailable"}

\* C22: the errors hsr.GetProfile returns are the sentinels of package hsr: a
\* 404 response ends the call with hsr.ErrPlayerNotFound, a 424 response with
\* hsr.ErrServerMaintenance, and an exhausted retry budget with hsr.ErrRateLimited.
C22_HsrSentinelsReturned ==
    \A p \in Goroutines :
        (call[p].method = "hsr.GetProfile" /\ pc[p] = "done" /\ reqs[p] > 0 /\ ~CtxDone(p)) =>
            /\ resp[p].status = 404 => res[p].err = "hsr.ErrPlayerNotFound"
            /\ resp[p].status = 424 => res[p].err = "hsr.ErrServerMaintenance"
            /\ (transient[p] /\ reqs[p] = maxRetries) => res[p].err = "hsr.ErrRateLimited"

\* the kind of outcome an error of either retry loop stands for
OutcomeKind(err) ==
    CASE err = Nil -> "success"
      [] err \in {"errors.ErrRateLimited", GenshinRateLimited} -> "ErrRateLimited"
      [] err \in {"errors.ErrInvalidUIDFormat", "genshin.ErrInvalidUIDFormat"} -> "ErrInvalidUIDFormat"
      [] err \in {"errors.ErrPlayerNotFound", "genshin.ErrPlayerNotFound"} -> "ErrPlayerNotFound"
      [] err \in {"errors.ErrServerMaintenance", "genshin.ErrServerMaintenance"} -> "ErrServerMaintenance"
      [] err \in {"errors.ErrServerError", "genshin.ErrServerError"} -> "ErrServerError"
      [] err \in {"errors.ErrServiceUnavailable", "genshin.ErrServiceUnavailable"} -> "ErrServiceUnavailable"
      [] OTHER -> err

\* C23: genshin's retry loop behaves as the generic fetcher does.  The same
\* sequence of responses being given to hsr.GetProfile (FetchWithRetry) and to
\* genshin.GetProfile (fetchProfileWithRetry), the two calls, once both have
\* returned, have issued the same number of HTTP requests, entered the same
\* number of waits and returned the same kind of outcome.
C23_GenshinMatchesFetcher ==
    (/\ call["g1"].method = "hsr.GetProfile" /\ call["g2"].method = "genshin.GetProfile"
     /\ pc["g1"] = "done" /\ pc["g2"] = "done") =>
        /\ reqs["g2"] = reqs["g1"]
        /\ waits["g2"] = waits["g1"]
        /\ OutcomeKind(ferr["g2"]) = OutcomeKind(ferr["g1"])

\* C24: retries use exponential backoff.  When the responses carry no
\* Retry-After header the loop can use, the wait before the second retry of a
\* FetchWithRetry call is strictly longer than the wait before its first retry.
\* (The first response is a 500, whose header the loop never reads, so that the
\* first wait lasted BackoffDelay(500, << >>) whatever the server sent.)
C24_ExponentialBackoff ==
    \A p \in Goroutines :
        (/\ UsesFetcher(p) /\ pc[p] = "backoff" /\ waits[p] = 2
         /\ prev[p] = 500 /\ resp[p].retryAfter = << >>)
            => delay[p] > BackoffDelay(prev[p], << >>)

\* C25: NewClient supplies defaults for what the caller left unset: a nil HTTP
\* client is replaced by one with a 10-second timeout and an empty userAgent by
\* "enkanetwork-go-client/1.0"; a non-nil HTTP client and a non-empty userAgent
\* are kept as they are, and the cache argument is stored as given.  The
\* fetchers get the HTTP client and the User-Agent of the client.
C25_NewClientDefaults ==
    client.built =>
        /\ client.Client.HTTPClient =
             IF args.httpClient.nil THEN HTTPClientWith(10) ELSE args.httpClient
        /\ client.Client.UserAgent =
             IF args.userAgent = << >> THEN DocumentedUserAgent ELSE args.userAgent
        /\ client.Client.Cache = args.cache
        /\ client.fetcher.client = client.Client.HTTPClient
        /\ client.fetcher.userAgent = client.Client.UserAgent

\* c is one of the ten characters '0'..'9'
IsDecimalDigit(c) == \E n \in 0..9 : ToString(n) = c

UIDFormatErrors ==
    {"hsr.ErrInvalidUIDFormat", "errors.ErrInvalidUIDFormat", "genshin.ErrInvalidUIDFormat"}

\* C26: core.IsValidUID(uid) is true exactly when uid is 9 characters, each in
\* '0'..'9', and zzz's isValidUID exactly when uid is 9 or 10 such characters.
\* GetProfile (of hsr, zzz, genshin; and genshin's GetPlayerInfo) rejects every
\* other uid with ErrInvalidUIDFormat and no value, and rejects no uid of that form.
C26_UIDValidation ==
    \A p \in Goroutines :
        (call[p] # NoCall /\ call[p].method \in UidMethods) =>
            LET uid == call[p].a
                digits == \A i \in 1..Len(uid) : IsDecimalDigit(uid[i])
                lengths == IF call[p].method = "zzz.GetProfile" THEN {9, 10} ELSE {9}
            IN  /\ IsValidUID(uid) <=> (Len(uid) = 9 /\ digits)
                /\ isValidUID(uid) <=> (Len(uid) \in {9, 10} /\ digits)
                /\ IF Len(uid) \in lengths /\ digits
                   THEN res[p].err \notin UIDFormatErrors
                   ELSE /\ pc[p] = "done"
                        /\ res[p].err \in UIDFormatErrors
                        /\ res[p].val = NilValue

C26_Witness ==
    \E p \in Goroutines :
        /\ call[p].method = "hsr.GetProfile"
        /\ Len(call[p].a) = 10 /\ Chars(call[p].a) = {"0"}
        /\ isValidUID(call[p].a) /\ ~IsValidUID(call[p].a)
        /\ pc[p] = "done" /\ res[p].err = "hsr.ErrInvalidUIDFormat"

\* Cache.Get gave the call of goroutine p an entry whose value is not of the
\* result type of its method
SawOtherType(p) ==
    /\ call[p] # NoCall
    /\ seen[p].found
    /\ seen[p].val.type # ResultType(call[p].method)

\* C27: an entry that Cache.Get reports found but whose value is not of the
\* method's result type is treated as a miss.  The method returns neither the
\* value nor an error for it: it goes on to the fetch and does not end before it
\* has issued a request; and when the fetch succeeds its Cache.Set replaces the
\* entry under that key by the fetched result.
C27_WrongTypeIsMiss ==
    /\ [](\A p \in Goroutines :
            SawOtherType(p) =>
              /\ reqs[p] = 0 => (pc[p] = "do" /\ res[p] = [val |-> NilValue, err |-> Nil])
              /\ pc[p] = "done" => (reqs[p] > 0 /\ res[p].val # seen[p].val)
              /\ (pc[p] = "done" /\ ferr[p] = Nil) => sets[p] = 1)
    /\ [][\A p \in Goroutines :
            (SawOtherType(p) /\ SetsNow(p)) =>
              /\ ferr[p] = Nil
              /\ cache'[CacheKey(call[p])].found
              /\ cache'[CacheKey(call[p])].val = fetched[p]
              /\ cache'[CacheKey(call[p])].by = call[p]]_vars

C27_Witness ==
    \E p \in Goroutines :
        /\ call[p].method = "enka.GetUserProfileHoyo"
        /\ seen[p] = Entry(OtherValue, 0, OtherUser)
        /\ pc[p] = "done" /\ reqs[p] = 1 /\ sets[p] = 1
        /\ res[p].err = Nil /\ res[p].val.id = 1
        /\ cache[CacheKey(call[p])] = Entry(fetched[p], enkaExpiration, call[p])

\* the fetch of the call of goroutine p has ended in an error
FetchFailed(p) == call[p] # NoCall /\ reqs[p] > 0 /\ ferr[p] # Nil

\* C28: a resource method whose fetch ends in an error (a classified status,
\* rate limiting, a decode failure, a transport error, a cancellation) never
\* calls Cache.Set, and no step of the call changes the cache: what the cache
\* holds is what the call found, whatever others did to it meanwhile.
C28_NoSetAfterError ==
    /\ [](\A p \in Goroutines :
            FetchFailed(p) => (pc[p] = "done" /\ sets[p] = 0))
    /\ [][\A p \in Goroutines :
            /\ SetsNow(p) => (ferr[p] = Nil /\ ferr'[p] = Nil)
            /\ (pc'[p] # pc[p] /\ ~SetsNow(p)) => cache' = cache
            /\ (FetchFailed(p) /\ pc'[p] # pc[p]) => (pc'[p] = "idle" /\ cache' = cache)]_vars

C28_Witness ==
    \E p \in Goroutines :
        /\ call[p].method = "zzz.GetProfile"
        /\ seen[p] = Entry(OtherValue, 0, OtherUser)
        /\ pc[p] = "done" /\ reqs[p] = 2 /\ sets[p] = 0
        /\ ferr[p] = "context.DeadlineExceeded"
        /\ cache[CacheKey(call[p])] = seen[p]

\* the call of goroutine p calls Cache.Get, issues an HTTP request, in this step
GetsNow(p) == gets'[p] > gets[p]
RequestsNow(p) == reqs'[p] > reqs[p]

\* C29: the events of one call of a resource method are ordered: validation,
\* Cache.Get, HTTP requests, Cache.Set, return.  Nothing happens for arguments
\* that fail validation; Cache.Get happens at most once, and on a client with a
\* cache before the first HTTP request; Cache.Set happens at most once, after
\* the last request, which was answered 200 with a body that decoded, and is
\* followed by the return only; and Cache.Set writes the key that Cache.Get read.
C29_OrderOfEvents ==
    /\ [](\A p \in Goroutines :
            call[p] # NoCall =>
              /\ gets[p] <= 1 /\ sets[p] <= 1
              /\ (gets[p] > 0 \/ reqs[p] > 0 \/ sets[p] > 0) => ~BadArguments(call[p])
              /\ (reqs[p] > 0 /\ hasCache) => gets[p] = 1
              /\ sets[p] > 0 =>
                   /\ pc[p] = "done" /\ gets[p] = 1 /\ reqs[p] > 0
                   /\ resp[p].status = 200 /\ resp[p].body = fetched[p]
                   /\ fetched[p] # NilValue /\ ferr[p] = Nil)
    /\ [][\A p \in Goroutines :
            /\ GetsNow(p) =>
                 /\ gets[p] = 0 /\ reqs[p] = 0 /\ sets[p] = 0
                 /\ seen'[p] = cache[CacheKey(call[p])]
                 /\ cache' = cache
            /\ RequestsNow(p) => (sets[p] = 0 /\ ~GetsNow(p) /\ ~SetsNow(p))
            /\ SetsNow(p) =>
                 /\ ~GetsNow(p)
                 /\ cache'[CacheKey(call[p])].val = fetched[p]
                 /\ \A k \in Keys \ {CacheKey(call[p])} : cache'[k] = cache[k]
            /\ (sets[p] > 0 /\ pc'[p] # pc[p]) => pc'[p] = "idle"]_vars

C29_Witness ==
    \E p \in Goroutines :
        /\ call[p].method = "genshin.GetPlayerInfo"
        /\ pc[p] = "done"
        /\ gets[p] = 1 /\ reqs[p] = 3 /\ sets[p] = 1
        /\ prev[p] = 429 /\ resp[p].status = 200
        /\ cache[CacheKey(call[p])].val = fetched[p]

\* the fetch of a game-profile method succeeded with a payload whose ttl is 0,
\* on a client with a cache
ZeroTTLFetched(p) ==
    /\ hasCache
    /\ call[p].method \in UidMethods
    /\ FetchSucceeded(p)
    /\ fetched[p].ttl = 0

\* C30: a payload TTL of 0 is not special-cased.  When the fetch of a
\* game-profile method succeeds with ttl = 0 on a client with a cache, Cache.Set
\* is still called, once, with the fetched profile and an expiration of zero, and
\* the profile is returned with no error.
C30_ZeroTTLIsStored ==
    /\ [](\A p \in Goroutines :
            ZeroTTLFetched(p) =>
              /\ pc[p] = "set" \/ (pc[p] = "done" /\ sets[p] = 1)
              /\ res[p] = [val |-> fetched[p], err |-> Nil])
    /\ [][\A p \in Goroutines :
            (ZeroTTLFetched(p) /\ pc[p] = "set" /\ pc'[p] # pc[p]) =>
              /\ SetsNow(p)
              /\ cache'[CacheKey(call[p])] = Entry(fetched[p], 0, call[p])
              /\ res'[p] = res[p]]_vars

C30_Witness ==
    \E p \in Goroutines :
        /\ ZeroTTLFetched(p)
        /\ call[p].method = "hsr.GetProfile"
        /\ pc[p] = "done" /\ sets[p] = 1
        /\ fetched[p] = [type |-> "*hsr.Profile", id |-> 2, ttl |-> 0]
        /\ res[p] = [val |-> fetched[p], err |-> Nil]
        /\ cache[CacheKey(call[p])] = Entry(fetched[p], 0, call[p])

\* C31: the delay parseRetryAfter returns is never negative, whatever the
\* Retry-After value, negative integers such as "-5" included.
C31_DelayNeverNegative ==
    parsed.done => parsed.d >= 0

\* the same of the delay FetchWithRetry waits with
C31_BackoffNeverNegative ==
    \A p \in Goroutines : UsesFetcher(p) => delay[p] >= 0

\* C32: every HTTP request of one FetchWithRetry call, the first attempt and
\* each retry, is a GET to the URL that was passed to the call and carries the
\* User-Agent the fetcher was built with; so all requests of a call are alike.
C32_SameRequestEveryAttempt ==
    /\ [](\A p \in Goroutines :
            UsesFetcher(p) =>
              /\ (reqs[p] > 0) <=> (sent[p] # {})
              /\ Cardinality(sent[p]) <= 1
              /\ \A r \in sent[p] :
                   /\ r.method = "GET"
                   /\ r.url = RequestURL(call[p])
                   /\ r.userAgent = client.fetcher.userAgent
                   /\ r.userAgent =
                        IF args.userAgent = << >> THEN DefaultUserAgent ELSE args.userAgent)
    /\ [][\A p \in Goroutines :
            (UsesFetcher(p) /\ RequestsNow(p)) =>
              \E r \in sent'[p] : sent'[p] = sent[p] \cup {r}]_vars

C32_Witness ==
    \E p \in Goroutines :
        /\ call[p].method = "hsr.GetProfile"
        /\ args.userAgent = <<"a">>
        /\ reqs[p] = 3 /\ prev[p] = 500 /\ resp[p].status = 503
        /\ sent[p] =
             {[method |-> "GET",
               url |-> <<"h", "t", "t", "p", "s", ":", "/", "/", "e", "n", "k", "a", ".",
                         "n", "e", "t", "w", "o", "r", "k", "/", "a", "p", "i", "/", "h",
                         "s", "r", "/", "u", "i", "d", "/", "8", "0", "0", "5", "7", "9",
                         "9", "5", "9">>,
               userAgent |-> <<"a">>]}

\* C33: GetUserProfileHoyo and GetUserProfileHoyoBuilds check the username
\* before the hoyo_hash.  An empty username gives ErrInvalidUsername whatever
\* the hash, the empty hash included; ErrInvalidHoyoHash is returned exactly
\* when the username is not empty and the hash is.
C33_UsernameBeforeHash ==
    \A p \in Goroutines :
        (call[p] # NoCall /\ call[p].method \in HoyoMethods) =>
            /\ Len(call[p].a) = 0 =>
                 (pc[p] = "done" /\ res[p] = [val |-> NilValue, err |-> "enka.ErrInvalidUsername"])
            /\ (res[p].err = "enka.ErrInvalidHoyoHash")
                 <=> (Len(call[p].a) > 0 /\ Len(call[p].b) = 0)

C33_Witness ==
    \E p \in Goroutines :
        /\ call[p] = [method |-> "enka.GetUserProfileHoyoBuilds", a |-> << >>, b |-> << >>]
        /\ pc[p] = "done"
        /\ res[p].err = "enka.ErrInvalidUsername"

\* C34: the cache keys of different clients never collide over a shared cache.
\* For valid uids and non-empty usernames and hashes, the keys derived by
\* genshin.GetProfile, genshin.GetPlayerInfo, hsr.GetProfile and zzz.GetProfile
\* differ from each other and from every key derived by an enka method.
C34_ClientKeysDisjoint ==
    \A x, y \in derived :
        (x.call.method \in UidMethods /\ x.call.method # y.call.method) => x.key # y.key

C34_Witness ==
    /\ \E x, y \in derived :
          /\ x.call.method = "genshin.GetProfile"
          /\ y.call.method = "genshin.GetPlayerInfo"
          /\ x.call.a = y.call.a
          /\ y.key = x.key \o <<"_", "i", "n", "f", "o">>
    /\ pc["g1"] = "do" /\ pc["g2"] = "do"
    /\ call["g1"] # call["g2"]

\* the call of p has returned a value it found in the cache
CacheHit(p) == pc[p] = "done" /\ res[p].err = Nil /\ gets[p] = 1 /\ reqs[p] = 0

\* the call of p has fetched a value, stored it and returned it
Populated(p) == pc[p] = "done" /\ res[p].err = Nil /\ sets[p] = 1

\* C35: the value a resource method returns on a cache hit is the very object
\* Cache.Get returned, and the object Cache.Set stores is the very object the
\* populating call returns to its caller (whenever it returns one: the nil map
\* of C17 is no object): no copy is made on either path.
C35_NoCopy ==
    /\ [](\A p \in Goroutines :
            CacheHit(p) => (ref.res[p] # 0 /\ ref.res[p] = ref.seen[p]))
    /\ [][\A p \in Goroutines :
            (sets'[p] = sets[p] + 1 /\ res[p].val # NilValue) =>
                /\ ref'.res[p] # 0
                /\ ref'.cache[CacheKey(call[p])] = ref'.res[p]]_vars

\* two calls for the same key have returned at the same time, one that
\* populated the cache and one that hit it, and both hold the same object,
\* which the cache holds too
C35_Witness ==
    /\ Populated("g1")
    /\ CacheHit("g2")
    /\ call["g1"] = call["g2"]
    /\ ref.res["g1"] # 0
    /\ ref.res["g1"] = ref.res["g2"]
    /\ ref.cache[CacheKey(call["g1"])] = ref.res["g1"]

\* goroutine p is inside FetchWithRetry: about to issue a request, waiting for
\* the response, or in a backoff
InFetch(p) == pc[p] \in {"do", "rt", "backoff"}

\* C36: every call of FetchWithRetry eventually returns, when every round trip
\* completes and every backoff timer fires unless the context is cancelled
C36_FetchReturns == \A p \in Goroutines : InFetch(p) ~> ~InFetch(p)

\* FetchWithRetry has returned after all its requests and both its waits
C36_Witness ==
    \E p \in Goroutines :
        /\ UsesFetcher(p)
        /\ pc[p] = "done"
        /\ reqs[p] = maxRetries
        /\ waits[p] = maxRetries - 1
        /\ res[p].err = ErrRateLimited

\* every request of the call of p was answered 429
OnlyRateLimited(p) == reqs[p] > 0 /\ transient[p] /\ resp[p].status = 429

\* C37: the older zzz client's fetchProfileWithRetry keeps to the budget of 3
\* attempts: a call that the server answers 429 every time issues at most 3
\* requests, and returns ErrRateLimited
C37_OldLoopKeepsBudget ==
    \A p \in Goroutines :
        OnlyRateLimited(p) =>
            /\ reqs[p] <= oldMaxRetries
            /\ pc[p] = "done" => res[p].err = OldRateLimited

====
